---- MODULE Spec2Model ----
(***************************************************************************)
(* A model of jsfinder's traversal engine (pkg/crawler, crawler.go) and of *)
(* the timeout manager, the retry executor and the error taxonomy it uses  *)
(* (pkg/utils).                                                            *)
(*                                                                         *)
(* Spec    : one Crawler running CrawlDomain or CrawlFromStdin over a      *)
(*           small web, with one goroutine per discovered link.            *)
(* SpecTM  : one TimeoutManager driven by arbitrary callers, with its      *)
(*           per-operation monitors and its global monitor.                *)
(* SpecHB  : SpecTM with heartbeats and the monitors' tickers.             *)
(* SpecRetry : one call of utils.Retry (pkg/utils/retry.go).               *)
(* SpecDelay : calculateDelay (pkg/utils/retry.go) on bounded inputs.      *)
(* SpecErrors : the error constructors, WithContext and WrapError.         *)
(* SpecOps : CrawlDomain together with the timeout manager's monitors     *)
(*           and deadlines, on one small page.                             *)
(* SpecBatch : one call of BatchTimeout.ExecuteBatch (pkg/utils/timeout.go).*)
(* FairSpec, FairSpecTM : CrawlDomain and SpecTM under weak fairness.      *)
(***************************************************************************)
EXTENDS Integers, Sequences, FiniteSets, TLC

VARIABLES
    web,          \* the site being crawled: URL -> page (an input)
    config,       \* crawler.Config: MaxDepth, Threads
    sess,         \* the CrawlDomain / CrawlFromStdin call in progress
    calls,        \* crawlURL invocations (one per goroutine), by call path
    visited,      \* Crawler.visited
    visitedMux,   \* Crawler.visitedMux: the call holding it, or NoHolder
    jsFiles,      \* Crawler.jsFiles
    jsFilesMux,   \* Crawler.jsFilesMux: the call holding it, or NoHolder
    output,       \* Crawler.output: the sink and the lines written to it
    operations,   \* TimeoutManager.operations: id -> operation object
    ops,          \* every OperationContext ever created, in creation order
    globalErr,    \* TimeoutManager.globalCtx.Err()
    monitors,     \* the monitorOperation goroutines, one per entry of ops
    gmon,         \* the monitorGlobalTimeout goroutine
    rt            \* the utils.Retry call in progress

crawlVars == <<web, config, sess, calls, visited, visitedMux, jsFiles, jsFilesMux, output>>
tmVars == <<operations, ops, globalErr, monitors, gmon>>
vars == <<web, config, sess, calls, visited, visitedMux, jsFiles, jsFilesMux, output,
          operations, ops, globalErr, monitors, gmon, rt>>

----------------------------------------------------------------------------
(* Bounds *)

MaxDepthBound == 2      \* config.MaxDepth ranges over 0..MaxDepthBound
MaxThreads == 2         \* config.Threads ranges over 1..MaxThreads
MaxOps == 2             \* SpecTM: operations created per manager
MaxHBOps == 1           \* SpecHB: operations created per manager
MaxAttemptsBound == 5   \* SpecRetry: config.MaxAttempts ranges over 0..MaxAttemptsBound
RandDen == 4            \* SpecDelay: rand.Float64() ranges over 0/RandDen..(RandDen-1)/RandDen
MaxWraps == 2            \* SpecErrors: WrapError applied up to MaxWraps times
MaxAnnotations == 1      \* SpecErrors: WithContext applied up to MaxAnnotations times
MaxOpsDepth == 1         \* SpecOps: config.MaxDepth ranges over 0..MaxOpsDepth
MaxOpsThreads == 2       \* SpecOps: config.Threads ranges over 1..MaxOpsThreads
MaxBatchOps == 2         \* SpecBatch: ExecuteBatch is given 1..MaxBatchOps operations
MaxBatchConcurrency == 2 \* SpecBatch: maxConcurrency ranges over 0..MaxBatchConcurrency

----------------------------------------------------------------------------
(* URLs.  A URL string is modelled by its parsed form (net/url.URL); two   *)
(* URL strings are equal exactly when all components are equal.            *)

U(scheme, host, path) == [scheme |-> scheme, host |-> host, path |-> path, frag |-> ""]

S == U("https", "x.test", "/")
A == U("https", "x.test", "/a")
B == U("https", "x.test", "/b")
C == U("https", "x.test", "/c")
D == U("https", "x.test", "/d")
H == U("http", "x.test", "/p")           \* same host, other scheme
O == U("https", "other.test", "/p")      \* other host
J2 == U("https", "cdn.test", "/lib.js")
Mailto == U("mailto", "", "test@x.test")       \* mailto:test@x.test: opaque, no host
Javascript == U("javascript", "", "void(0)")   \* javascript:void(0): opaque, no host

\* An href or src attribute as written in a page.
Abs(u) == [kind |-> "abs", url |-> u]             \* https://host/path
Rel(path) == [kind |-> "rootrel", path |-> path]  \* /path
Frag(f) == [kind |-> "frag", frag |-> f]          \* #f

EmptyPage == [anchors |-> <<>>, scripts |-> <<>>]

\* The page a server returns for u: the fragment is not sent to the server.
Page(w, u) ==
    LET r == [u EXCEPT !.frag = ""]
    IN  IF r \in DOMAIN w THEN w[r] ELSE EmptyPage

\* The spec's end-to-end page plus a diamond, a back link and repeated scripts.
WebMixed ==
    [u \in {S, A, B} |->
        CASE u = S -> [anchors |-> <<Rel("/a"), Rel("/b"), Abs(O), Abs(H)>>,
                       scripts |-> <<Rel("/a.js")>>]
          [] u = A -> [anchors |-> <<Rel("/b")>>, scripts |-> <<Rel("/a.js"), Abs(J2)>>]
          [] u = B -> [anchors |-> <<Abs(S)>>, scripts |-> <<Abs(J2), Abs(J2)>>]]

\* A page reachable both at depth 1 and, through a sibling, at depth 2.
WebShortcut ==
    [u \in {S, A, B} |->
        CASE u = S -> [anchors |-> <<Rel("/a"), Rel("/b")>>, scripts |-> <<>>]
          [] u = A -> [anchors |-> <<Rel("/b")>>, scripts |-> <<>>]
          [] u = B -> [anchors |-> <<Rel("/c")>>, scripts |-> <<Rel("/a.js")>>]]

\* Two levels of fan-out.
WebFanOut ==
    [u \in {S, A} |->
        CASE u = S -> [anchors |-> <<Rel("/a"), Rel("/b")>>, scripts |-> <<>>]
          [] u = A -> [anchors |-> <<Rel("/c"), Rel("/d")>>, scripts |-> <<>>]]

\* The same link and the same script twice in one page, a fragment link,
\* a self link and a back link.
WebRepeats ==
    [u \in {S, A} |->
        CASE u = S -> [anchors |-> <<Rel("/a"), Rel("/a"), Frag("top")>>,
                       scripts |-> <<Rel("/a.js"), Rel("/a.js")>>]
          [] u = A -> [anchors |-> <<Abs(S), Rel("/a")>>, scripts |-> <<Rel("/a.js")>>]]

\* The links of TestCrawler_extractLinks and TestCrawler_isValidLink that
\* are not pages: mail, script, fragment and file links.
WebLinkKinds ==
    [u \in {S} |->
        [anchors |-> <<Abs(Mailto), Abs(Javascript), Frag("anchor"), Rel("/image.jpg")>>,
         scripts |-> <<>>]]

Webs == {WebMixed, WebShortcut, WebFanOut, WebRepeats, WebLinkKinds}

\* A blank line of stdin: strings.TrimSpace leaves "".
Blank == U("", "", "")

\* Seed lines read from stdin, trimmed.
SeedLists == {<<S>>, <<A, Blank, S>>}

----------------------------------------------------------------------------
(* pkg/utils/timeout.go: the TimeoutManager.                               *)
(* Every method runs under tm.mutex from start to end, so each is one      *)
(* atomic step.  A method constrains operations, ops and globalErr (and    *)
(* CreateOperation also monitors); the action that calls it leaves the     *)
(* rest unchanged.                                                         *)

NoErr == "none"

\* opCtx.Cancel(): the first cause of a context's end sticks.
CtxCancel(o) == IF o.err = NoErr THEN [o EXCEPT !.err = "Canceled"] ELSE o

\* close(opCtx.Done), recording which transition closed it.  Closing an
\* already closed channel panics: a second entry in done is that panic.
CloseDone(o, how) == [o EXCEPT !.done = Append(@, how)]

\* context.WithTimeout(context.Background(), timeout): a context that does
\* not descend from the global one.
NewOperationContextDetached(id, parentErr) ==
    [id |-> id, err |-> NoErr, done |-> <<>>, hb |-> 0]

\* context.WithTimeout(tm.globalCtx, timeout): a child of a finished parent
\* is finished from the start, with the parent's error.
NewOperationContext(id, parentErr) ==
    [id |-> id, err |-> parentErr, done |-> <<>>, hb |-> 0]

\* A monitor starts in its select loop with lastHeartbeat = now.
NewMonitor == [pc |-> "select", idle |-> 0, warned |-> FALSE]

\* The operation object i is the one stored in tm.operations under its id.
InMap(i) == \E id \in DOMAIN operations : operations[id] = i

\* tm.operations[id] = opCtx
PutOp(m, id, o) == [x \in DOMAIN m \cup {id} |-> IF x = id THEN o ELSE m[x]]

\* delete omitted: the operation stays in the map.
DeleteOpKeeps(m, id) == m

\* delete(tm.operations, id)
DeleteOp(m, id) == [x \in DOMAIN m \ {id} |-> m[x]]

\* Cancellation of a parent context reaches every child that is still live.
Propagate(os, err) ==
    [i \in DOMAIN os |-> IF os[i].err = NoErr THEN [os[i] EXCEPT !.err = err] ELSE os[i]]

CreateOperation(id) ==
    /\ ops' = Append(ops, NewOperationContext(id, globalErr))
    /\ operations' = PutOp(operations, id, Len(ops) + 1)
    /\ monitors' = Append(monitors, NewMonitor)
    /\ UNCHANGED globalErr

\* close(opCtx.Done) left out: the operation is cancelled and deleted only.
CompleteOperationNoClose(id) ==
    /\ IF id \in DOMAIN operations
         THEN /\ ops' = [ops EXCEPT ![operations[id]] = CtxCancel(@)]
              /\ operations' = DeleteOp(operations, id)
         ELSE UNCHANGED <<ops, operations>>
    /\ UNCHANGED globalErr

CompleteOperation(id) ==
    /\ IF id \in DOMAIN operations
         THEN /\ ops' = [ops EXCEPT ![operations[id]] = CtxCancel(CloseDone(@, "Completed"))]
              /\ operations' = DeleteOp(operations, id)
         ELSE UNCHANGED <<ops, operations>>
    /\ UNCHANGED globalErr

\* Cancel called on every operation in the map instead of on the one found
\* under id.
CancelOperationSweeps(id) ==
    /\ IF id \in DOMAIN operations
         THEN /\ ops' = [i \in DOMAIN ops |->
                          IF i = operations[id] THEN CloseDone(CtxCancel(ops[i]), "Cancelled")
                          ELSE IF InMap(i) THEN CtxCancel(ops[i])
                          ELSE ops[i]]
              /\ operations' = DeleteOp(operations, id)
         ELSE UNCHANGED <<ops, operations>>
    /\ UNCHANGED globalErr

CancelOperation(id) ==
    /\ IF id \in DOMAIN operations
         THEN /\ ops' = [ops EXCEPT ![operations[id]] = CloseDone(CtxCancel(@), "Cancelled")]
              /\ operations' = DeleteOp(operations, id)
         ELSE UNCHANGED <<ops, operations>>
    /\ UNCHANGED globalErr

\* opCtx.Heartbeat <- struct{}{} without the default case: the send waits
\* while the channel is full.
SendHeartbeatBlocking(id) ==
    /\ id \in DOMAIN operations => ops[operations[id]].hb = 0
    /\ IF id \in DOMAIN operations
         THEN ops' = [ops EXCEPT ![operations[id]].hb = 1]
         ELSE UNCHANGED ops
    /\ UNCHANGED <<operations, globalErr>>

\* select { case opCtx.Heartbeat <- struct{}{}: default: } on a channel of
\* capacity 1 that only the monitor drains.
SendHeartbeat(id) ==
    /\ IF id \in DOMAIN operations /\ ops[operations[id]].hb = 0
         THEN ops' = [ops EXCEPT ![operations[id]].hb = 1]
         ELSE UNCHANGED ops
    /\ UNCHANGED <<operations, globalErr>>

Shutdown ==
    /\ ops' = Propagate(
                [i \in DOMAIN ops |->
                    IF \E id \in DOMAIN operations : operations[id] = i
                      THEN CloseDone(CtxCancel(ops[i]), "Shutdown")
                      ELSE ops[i]],
                "Canceled")
    /\ operations' = << >>
    /\ globalErr' = IF globalErr = NoErr THEN "Canceled" ELSE globalErr

----------------------------------------------------------------------------
(* pkg/utils/timeout.go: timers and monitor goroutines.                    *)

\* Ticks of the heartbeat ticker without a heartbeat after which
\* time.Since(lastHeartbeat) > 2 * HeartbeatInterval holds for certain.
StaleTicks == 3

\* The deadline of an operation's own context passes.
OpDeadline(i) ==
    /\ ops[i].err = NoErr
    /\ ops' = [ops EXCEPT ![i].err = "DeadlineExceeded"]
    /\ UNCHANGED <<operations, globalErr, monitors, gmon>>
    /\ UNCHANGED <<crawlVars, rt>>

\* The global deadline passes: globalCtx and every live child end.
GlobalDeadline ==
    /\ globalErr = NoErr
    /\ globalErr' = "DeadlineExceeded"
    /\ ops' = Propagate(ops, "DeadlineExceeded")
    /\ UNCHANGED <<operations, monitors, gmon>>
    /\ UNCHANGED <<crawlVars, rt>>

\* monitorOperation, case <-opCtx.Done: return
MonitorDone(i) ==
    /\ monitors[i].pc = "select"
    /\ ops[i].done # <<>>
    /\ monitors' = [monitors EXCEPT ![i].pc = "exitDone"]
    /\ UNCHANGED <<operations, ops, globalErr, gmon>>
    /\ UNCHANGED <<crawlVars, rt>>

\* monitorOperation, case <-opCtx.Ctx.Done(): the timeout is logged when
\* the error is DeadlineExceeded; CancelOperation is called next.
MonitorCtxDone(i) ==
    /\ monitors[i].pc = "select"
    /\ ops[i].err # NoErr
    /\ monitors' = [monitors EXCEPT ![i].pc = "cancel"]
    /\ UNCHANGED <<operations, ops, globalErr, gmon>>
    /\ UNCHANGED <<crawlVars, rt>>

\* monitorOperation: tm.CancelOperation(opCtx.ID); return
MonitorCancel(i) ==
    /\ monitors[i].pc = "cancel"
    /\ CancelOperation(ops[i].id)
    /\ monitors' = [monitors EXCEPT ![i].pc = "exitCancel"]
    /\ UNCHANGED gmon
    /\ UNCHANGED <<crawlVars, rt>>

\* monitorOperation, case <-opCtx.Heartbeat: lastHeartbeat = time.Now()
MonitorHeartbeat(i) ==
    /\ monitors[i].pc = "select"
    /\ ops[i].hb = 1
    /\ ops' = [ops EXCEPT ![i].hb = 0]
    /\ monitors' = [monitors EXCEPT ![i].idle = 0, ![i].warned = FALSE]
    /\ UNCHANGED <<operations, globalErr, gmon>>
    /\ UNCHANGED <<crawlVars, rt>>

\* The ticker case with a cancellation added: a stale heartbeat ends the
\* operation.
MonitorTickCancels(i, late) ==
    LET n == IF monitors[i].idle < StaleTicks THEN monitors[i].idle + 1 ELSE StaleTicks
        stale == n = StaleTicks \/ (n = StaleTicks - 1 /\ late)
    IN  /\ monitors[i].pc = "select"
        /\ monitors' = [monitors EXCEPT ![i].idle = n, ![i].warned = stale]
        /\ IF stale THEN CancelOperation(ops[i].id)
                    ELSE UNCHANGED <<operations, ops, globalErr>>
        /\ UNCHANGED gmon
        /\ UNCHANGED <<crawlVars, rt>>

\* monitorOperation, case <-heartbeatTicker.C: a warning is logged when the
\* last heartbeat is older than two intervals.  After StaleTicks ticks it
\* is; one tick earlier it is when this tick was delivered late.
MonitorTick(i, late) ==
    LET n == IF monitors[i].idle < StaleTicks THEN monitors[i].idle + 1 ELSE StaleTicks
    IN  /\ monitors[i].pc = "select"
        /\ monitors' = [monitors EXCEPT ![i].idle = n,
                                        ![i].warned = n = StaleTicks \/ (n = StaleTicks - 1 /\ late)]
        /\ UNCHANGED <<operations, ops, globalErr, gmon>>
        /\ UNCHANGED <<crawlVars, rt>>

\* monitorGlobalTimeout: <-tm.globalCtx.Done() returns.
GlobalMonitorWake ==
    /\ gmon.pc = "wait"
    /\ globalErr # NoErr
    /\ gmon' = [gmon EXCEPT !.pc = IF globalErr = "DeadlineExceeded" THEN "snapshot" ELSE "exit"]
    /\ UNCHANGED <<operations, ops, globalErr, monitors>>
    /\ UNCHANGED <<crawlVars, rt>>

\* monitorGlobalTimeout: the operations are copied under RLock.
GlobalMonitorSnapshot ==
    /\ gmon.pc = "snapshot"
    /\ gmon' = [pc |-> "cancel", snap |-> {operations[id] : id \in DOMAIN operations}]
    /\ UNCHANGED <<operations, ops, globalErr, monitors>>
    /\ UNCHANGED <<crawlVars, rt>>

\* monitorGlobalTimeout: opCtx.Cancel() for every copied operation.
GlobalMonitorCancel ==
    /\ gmon.pc = "cancel"
    /\ ops' = [i \in DOMAIN ops |-> IF i \in gmon.snap THEN CtxCancel(ops[i]) ELSE ops[i]]
    /\ gmon' = [pc |-> "exit", snap |-> {}]
    /\ UNCHANGED <<operations, globalErr, monitors>>
    /\ UNCHANGED <<crawlVars, rt>>

----------------------------------------------------------------------------
(* The TimeoutManager under arbitrary callers.                             *)

Ids == {"x", "y"}

CallCreate(id, limit) ==
    /\ Len(ops) < limit
    /\ CreateOperation(id)
    /\ UNCHANGED gmon
    /\ UNCHANGED <<crawlVars, rt>>

CallComplete(id) ==
    /\ CompleteOperation(id)
    /\ UNCHANGED <<monitors, gmon>>
    /\ UNCHANGED <<crawlVars, rt>>

CallCancel(id) ==
    /\ CancelOperation(id)
    /\ UNCHANGED <<monitors, gmon>>
    /\ UNCHANGED <<crawlVars, rt>>

CallHeartbeat(id) ==
    /\ SendHeartbeat(id)
    /\ UNCHANGED <<monitors, gmon>>
    /\ UNCHANGED <<crawlVars, rt>>

CallShutdown ==
    /\ Shutdown
    /\ UNCHANGED <<monitors, gmon>>
    /\ UNCHANGED <<crawlVars, rt>>

----------------------------------------------------------------------------
(* pkg/utils/retry.go: the error taxonomy.                                 *)

UnknownError == "UNKNOWN_ERROR"
NetworkError == "NETWORK_ERROR"
TimeoutError == "TIMEOUT_ERROR"
HTTPError == "HTTP_ERROR"
ParseError == "PARSE_ERROR"
ConfigError == "CONFIG_ERROR"
ValidationError == "VALIDATION_ERROR"
FileError == "FILE_ERROR"

\* An error value: an *AppError (app) with its Type, Retryable, Message and
\* Context fields, or any other error.  cause says what lies underneath:
\* "nil", a net.Error ("net"; "netTimeout" when its Timeout() is true, as
\* for an expired http.Client.Timeout), context.Canceled,
\* context.DeadlineExceeded, an error whose text contains "parse", or
\* something else ("other").  message is the Message as the sequence of its
\* parts, outermost prefix first; context is the Context map as a set of
\* <<key, value>> pairs.  Timestamps are left out.
Nil ==
    [app |-> FALSE, type |-> "nil", retryable |-> FALSE, cause |-> "nil",
     message |-> <<>>, context |-> {}]

\* The flag also depends on whether a cause is given.
isRetryableErrorByCause(errType, cause) ==
    \/ errType \in {NetworkError, TimeoutError}
    \/ errType = HTTPError /\ cause # "nil"

\* isRetryableError(errType, cause)
isRetryableError(errType, cause) == errType \in {NetworkError, TimeoutError, HTTPError}

\* (e *AppError) WithContext(key, value): e.Context[key] = value.
WithContext(e, key, value) ==
    [e EXCEPT !.context = {kv \in @ : kv[1] # key} \cup {<<key, value>>}]

NewError(errType, message, cause) ==
    [app |-> TRUE, type |-> errType, retryable |-> isRetryableError(errType, cause),
     cause |-> cause, message |-> <<message>>, context |-> {}]

NewNetworkError(message, cause) == NewError(NetworkError, message, cause)
NewTimeoutError(message, cause) == NewError(TimeoutError, message, cause)
NewHTTPError(message, statusCode, cause) ==
    WithContext(NewError(HTTPError, message, cause), "status_code", statusCode)
NewParseError(message, cause) == NewError(ParseError, message, cause)
NewConfigError(message, cause) == NewError(ConfigError, message, cause)
NewValidationError(message, cause) == NewError(ValidationError, message, cause)
NewFileError(message, cause) == NewError(FileError, message, cause)

\* &AppError{Type: errType, Retryable: retryable}: the fields are exported,
\* so a caller can set the flag by hand.
AppErrorLiteral(errType, retryable) ==
    [app |-> TRUE, type |-> errType, retryable |-> retryable, cause |-> "nil",
     message |-> <<>>, context |-> {}]

\* An error that is not an *AppError.
PlainError(cause) ==
    [app |-> FALSE, type |-> UnknownError, retryable |-> FALSE, cause |-> cause,
     message |-> <<cause>>, context |-> {}]

\* errors.As(err, &netErr): context.DeadlineExceeded has Timeout() and
\* Temporary(), so it is a net.Error too.
IsNetworkError(err) ==
    IF err.app THEN err.type = NetworkError
               ELSE err.cause \in {"net", "netTimeout", "DeadlineExceeded"}

IsTimeoutError(err) ==
    IF err.app THEN err.type = TimeoutError
               ELSE err.cause \in {"netTimeout", "DeadlineExceeded"}

IsRetryableError(err) ==
    IF err.app THEN err.retryable ELSE IsNetworkError(err) \/ IsTimeoutError(err)

\* The Retryable flag not consulted: the kind alone decides.
isErrorRetryableByKindOnly(err, retryableErrors) ==
    IF err = Nil THEN FALSE
    ELSE IF err.app THEN err.type \in retryableErrors
    ELSE IsRetryableError(err)

\* isErrorRetryable(err, retryableErrors)
isErrorRetryable(err, retryableErrors) ==
    IF err = Nil THEN FALSE
    ELSE IF err.app THEN err.type \in retryableErrors /\ err.retryable
    ELSE IsRetryableError(err)

\* An *AppError classified anew, like any other error.
WrapErrorReclassifies(err, message) ==
    IF err = Nil THEN Nil
    ELSE NewError(IF IsNetworkError(err) THEN NetworkError
                  ELSE IF IsTimeoutError(err) THEN TimeoutError
                  ELSE IF err.cause = "parse" THEN ParseError
                  ELSE UnknownError,
                  message, err.cause)

\* WrapError(err, message): an *AppError keeps Type, Cause, Context and
\* Retryable and has message put before its Message; any other error is
\* classified and becomes the cause.
WrapError(err, message) ==
    IF err = Nil THEN Nil
    ELSE IF err.app THEN [err EXCEPT !.message = <<message>> \o @]
    ELSE NewError(IF IsNetworkError(err) THEN NetworkError
                  ELSE IF IsTimeoutError(err) THEN TimeoutError
                  ELSE IF err.cause = "parse" THEN ParseError
                  ELSE UnknownError,
                  message, err.cause)

\* The error functions applied to any error: an error is constructed or
\* given, and then annotated and wrapped any number of times.
ErrorTypes ==
    {UnknownError, NetworkError, TimeoutError, HTTPError, ParseError, ConfigError,
     ValidationError, FileError}

Causes == {"nil", "net", "netTimeout", "Canceled", "DeadlineExceeded", "parse", "other"}

Messages == {"m", "w"}

StatusCodes == {200, 404, 429, 500}

ContextKeys == {"status_code", "url"}

\* Errors that no constructor made: nil, errors of other types, and
\* AppError literals with either flag.
GivenErrors ==
    {Nil} \cup {PlainError(cause) : cause \in Causes \ {"nil"}}
          \cup {AppErrorLiteral(errType, retryable) : errType \in ErrorTypes, retryable \in BOOLEAN}

\* The constructor of each kind; NewError itself for UnknownError.
Construct(errType, message, statusCode, cause) ==
    CASE errType = NetworkError -> NewNetworkError(message, cause)
      [] errType = TimeoutError -> NewTimeoutError(message, cause)
      [] errType = HTTPError -> NewHTTPError(message, statusCode, cause)
      [] errType = ParseError -> NewParseError(message, cause)
      [] errType = ConfigError -> NewConfigError(message, cause)
      [] errType = ValidationError -> NewValidationError(message, cause)
      [] errType = FileError -> NewFileError(message, cause)
      [] OTHER -> NewError(errType, message, cause)

\* No error yet.
NewErrors ==
    [pc |-> "errors", how |-> "none", kind |-> "nil", orig |-> Nil, err |-> Nil,
     wraps |-> 0, annotations |-> 0]

ErrNew(errType, message, statusCode, cause) ==
    /\ rt.pc = "errors"
    /\ rt.how = "none"
    /\ rt' = [rt EXCEPT !.how = "new", !.kind = errType,
                        !.orig = Construct(errType, message, statusCode, cause),
                        !.err = Construct(errType, message, statusCode, cause)]
    /\ UNCHANGED <<crawlVars, tmVars>>

ErrGiven(e) ==
    /\ rt.pc = "errors"
    /\ rt.how = "none"
    /\ rt' = [rt EXCEPT !.how = "given", !.kind = e.type, !.orig = e, !.err = e]
    /\ UNCHANGED <<crawlVars, tmVars>>

\* err.WithContext(key, value) on an *AppError
ErrWithContext(key, value) ==
    /\ rt.pc = "errors"
    /\ rt.how # "none"
    /\ rt.err.app
    /\ rt.annotations < MaxAnnotations
    /\ rt' = [rt EXCEPT !.err = WithContext(@, key, value), !.annotations = @ + 1]
    /\ UNCHANGED <<crawlVars, tmVars>>

\* err = WrapError(err, message)
ErrWrap(message) ==
    /\ rt.pc = "errors"
    /\ rt.how # "none"
    /\ rt.wraps < MaxWraps
    /\ rt' = [rt EXCEPT !.err = WrapError(@, message), !.wraps = @ + 1]
    /\ UNCHANGED <<crawlVars, tmVars>>

----------------------------------------------------------------------------
(* pkg/utils/retry.go: Retry.                                              *)

\* RetryableErrors of DefaultRetryConfig and NetworkRetryConfig, and of
\* QuickRetryConfig.
RetryableErrorLists ==
    {{NetworkError, TimeoutError, HTTPError}, {NetworkError, TimeoutError}}

\* Timeout is 0 (no overall deadline) or positive (1).
RetryConfigs ==
    [MaxAttempts : 0..MaxAttemptsBound, RetryableErrors : RetryableErrorLists,
     Timeout : {0, 1}]

\* NetworkRetryConfig(), which crawler.New stores in c.retryConfig, with
\* MaxAttempts ranging up to the bound.
CrawlerRetryConfigs ==
    {cfg \in RetryConfigs :
        /\ cfg.MaxAttempts >= 1
        /\ cfg.RetryableErrors = {NetworkError, TimeoutError, HTTPError}
        /\ cfg.Timeout = 1}

\* What an arbitrary attempt function may return.
AnyOutcomes ==
    {Nil, NewNetworkError("m", "nil"), NewHTTPError("m", 500, "nil"),
     NewValidationError("m", "nil"),
     AppErrorLiteral(NetworkError, FALSE), AppErrorLiteral(ValidationError, TRUE),
     PlainError("net"), PlainError("other")}

\* What crawlURL's retryFn may return: nil, an HTTP error for a status of
\* 400 or more, a network error for a transport failure or for a request
\* that outlasted c.client.Timeout, and, once ctx has ended, the network
\* error that wraps the context's error.
FetchOutcomes(ctxErr) ==
    {Nil, NewHTTPError("HTTP error", 500, "nil"),
     NewNetworkError("failed to fetch", "net"),
     NewNetworkError("failed to fetch", "netTimeout")}
        \cup (IF ctxErr # NoErr THEN {NewNetworkError("failed to fetch", ctxErr)} ELSE {})

\* Retry(ctx, config, fn, logger) is called.
NewRetry(cfg, fn) ==
    [cfg |-> cfg, fn |-> fn, pc |-> "loop", attempt |-> 0,
     parentErr |-> NoErr, ctxErr |-> NoErr,
     invoked |-> 0, outs |-> <<>>, sleeps |-> 0,
     result |-> [Success |-> FALSE, Attempts |-> 0, LastError |-> Nil, AllErrors |-> <<>>],
     ret |-> Nil]

\* One attempt more than configured.
LoopContinuesOnceMore(attempt, maxAttempts) == attempt <= maxAttempts + 1

\* for attempt := 1; attempt <= config.MaxAttempts; attempt++
LoopContinues(attempt, maxAttempts) == attempt <= maxAttempts

\* The context never looked at.
CtxDoneIgnored(err) == FALSE

\* case <-ctx.Done():
CtxDone(err) == err # NoErr

\* Only the last error kept.
RecordErrorLastOnly(result, err) == [result EXCEPT !.LastError = err]

\* result.LastError = err; result.AllErrors = append(result.AllErrors, err)
RecordError(result, err) ==
    [result EXCEPT !.LastError = err, !.AllErrors = Append(@, err)]

\* The error of the check at the head of the loop, and the error of the
\* sleep's select.
CancelledError(ctxErr) ==
    NewTimeoutError("retry operation cancelled or timed out", ctxErr)

CancelledDuringDelay(ctxErr) ==
    NewTimeoutError("retry operation cancelled or timed out during delay", ctxErr)

\* The check left out: a delay follows every failed attempt.
LastAttemptNever(attempt, maxAttempts) == FALSE

\* if attempt == config.MaxAttempts { break }
LastAttempt(attempt, maxAttempts) == attempt = maxAttempts

\* The loop head: the loop condition, result.Attempts = attempt, the
\* non-blocking check of ctx, and the call of fn.
RetryLoop ==
    LET a == rt.attempt + 1
    IN  /\ rt.pc = "loop"
        /\ rt' = IF ~LoopContinues(a, rt.cfg.MaxAttempts)
                   THEN [rt EXCEPT !.pc = "returned"]
                 ELSE IF CtxDone(rt.ctxErr)
                   THEN [rt EXCEPT !.pc = "returned", !.attempt = a,
                                   !.result = RecordError([@ EXCEPT !.Attempts = a],
                                                          CancelledError(rt.ctxErr))]
                 ELSE [rt EXCEPT !.pc = "fn", !.attempt = a, !.invoked = @ + 1,
                                 !.result.Attempts = a]
        /\ UNCHANGED <<crawlVars, tmVars>>

\* fn is handed the caller's context.
FnContextOfCaller(r) == r.parentErr

\* fn(ctx): ctx is the context that createContextWithTimeout returned.
FnContext(r) == r.ctxErr

\* fn(ctx) returns err: success, a terminal error, the last attempt, or a
\* delay is calculated and the sleep begins.
FnReturn(err) ==
    /\ rt.pc = "fn"
    /\ err \in (IF rt.fn = "fetch" THEN FetchOutcomes(FnContext(rt)) ELSE AnyOutcomes)
    /\ rt' = IF err = Nil
               THEN [rt EXCEPT !.pc = "returned", !.outs = Append(@, err),
                               !.result.Success = TRUE]
             ELSE IF ~isErrorRetryable(err, rt.cfg.RetryableErrors)
                     \/ LastAttempt(rt.attempt, rt.cfg.MaxAttempts)
               THEN [rt EXCEPT !.pc = "returned", !.outs = Append(@, err),
                               !.result = RecordError(@, err)]
             ELSE [rt EXCEPT !.pc = "sleep", !.outs = Append(@, err),
                             !.sleeps = @ + 1,
                             !.result = RecordError(@, err)]
    /\ UNCHANGED <<crawlVars, tmVars>>

\* The sleep's select, case <-ctx.Done()
SleepCtxDone ==
    /\ rt.pc = "sleep"
    /\ CtxDone(rt.ctxErr)
    /\ rt' = [rt EXCEPT !.pc = "returned",
                        !.result = RecordError(@, CancelledDuringDelay(rt.ctxErr))]
    /\ UNCHANGED <<crawlVars, tmVars>>

\* The sleep's select, case <-time.After(delay)
SleepOver ==
    /\ rt.pc = "sleep"
    /\ rt' = [rt EXCEPT !.pc = "loop"]
    /\ UNCHANGED <<crawlVars, tmVars>>

\* The caller's context ends (cancelled, or its deadline passes) while
\* Retry runs; Retry's own context is its child, or the same context when
\* config.Timeout is 0.
ParentCtxEnds(err) ==
    /\ rt.pc \in {"loop", "fn", "sleep"}
    /\ rt.parentErr = NoErr
    /\ rt' = [rt EXCEPT !.parentErr = err,
                        !.ctxErr = IF @ = NoErr THEN err ELSE @]
    /\ UNCHANGED <<crawlVars, tmVars>>

\* createContextWithTimeout: config.Timeout has elapsed.
OverallTimeout ==
    /\ rt.pc \in {"loop", "fn", "sleep"}
    /\ rt.cfg.Timeout > 0
    /\ rt.ctxErr = NoErr
    /\ rt' = [rt EXCEPT !.ctxErr = "DeadlineExceeded"]
    /\ UNCHANGED <<crawlVars, tmVars>>

\* crawlURL after Retry: on failure the wrapped LastError is returned.
CrawlURLAfterRetry ==
    /\ rt.pc = "returned"
    /\ rt.fn = "fetch"
    /\ rt' = [rt EXCEPT !.pc = "done",
                        !.ret = IF rt.result.Success THEN Nil
                                ELSE WrapError(rt.result.LastError, "failed to crawl")]
    /\ UNCHANGED <<crawlVars, tmVars>>

----------------------------------------------------------------------------
(* pkg/utils/retry.go: calculateDelay.  A time.Duration is a whole number  *)
(* of time units; the float64 values in between are kept as exact          *)
(* fractions num/den with den > 0.                                         *)

Rat(n, d) == [num |-> n, den |-> d]

RECURSIVE Pow(_, _)
Pow(b, e) == IF e = 0 THEN 1 ELSE b * Pow(b, e - 1)

\* time.Duration(delay): the fraction is cut off, towards zero.
Trunc(q) == IF q.num >= 0 THEN q.num \div q.den ELSE -((-q.num) \div q.den)

\* math.Pow(config.BackoffFactor, float64(attempt)): the exponent one too
\* high.
BackoffPowerOfAttempt(factor, attempt) ==
    Rat(Pow(factor.num, attempt), Pow(factor.den, attempt))

\* math.Pow(config.BackoffFactor, float64(attempt-1))
BackoffPower(factor, attempt) ==
    Rat(Pow(factor.num, attempt - 1), Pow(factor.den, attempt - 1))

\* if delay > float64(config.MaxDelay) { delay = float64(config.MaxDelay) }
CapDelay(delay, maxDelay) ==
    IF delay.num > maxDelay * delay.den THEN Rat(maxDelay, 1) ELSE delay

\* rand.Float64() is r/RandDen for some r in 0..RandDen-1.
\* Jitter of up to 50%: delay + (r/RandDen - 0.5) * 2 * (delay * 0.5)
AddJitterHalf(delay, r) ==
    Rat(delay.num * (RandDen + 2 * r), delay.den * 2 * RandDen)

\* jitterRange := delay * 0.25
\* delay += (rand.Float64() - 0.5) * 2 * jitterRange
AddJitter(delay, r) ==
    Rat(delay.num * (3 * RandDen + 2 * r), delay.den * 4 * RandDen)

\* calculateDelay(attempt, config), with r the random number drawn when
\* config.Jitter is set.
calculateDelay(attempt, cfg, r) ==
    LET power == BackoffPower(cfg.BackoffFactor, attempt)
        raw == Rat(cfg.InitialDelay * power.num, power.den)
        capped == CapDelay(raw, cfg.MaxDelay)
        jittered == AddJitter(capped, r)
    IN  Trunc(IF ~cfg.Jitter THEN capped
              ELSE IF jittered.num < 0 THEN Rat(cfg.InitialDelay, 1)
              ELSE jittered)

\* Configurations for calculateDelay: delays that are and are not cut
\* off by MaxDelay, factors below, at and above 1.
BackoffFactors == {Rat(1, 1), Rat(3, 2), Rat(2, 1), Rat(1, 2)}

DelayConfigs ==
    [InitialDelay : {0, 1, 3, 100}, MaxDelay : {0, 2, 250, 10000},
     BackoffFactor : BackoffFactors, Jitter : BOOLEAN]

\* No call of calculateDelay has been made yet.
NewDelay(cfg) == [pc |-> "delay", cfg |-> cfg, attempt |-> 0, rnd |-> 0, delay |-> 0]

\* delay := calculateDelay(attempt, config)
CalculateDelay(attempt, r) ==
    /\ rt.pc = "delay"
    /\ rt' = [rt EXCEPT !.attempt = attempt, !.rnd = r,
                        !.delay = calculateDelay(attempt, rt.cfg, r)]
    /\ UNCHANGED <<crawlVars, tmVars>>

----------------------------------------------------------------------------
(* crawler.go: pure helpers.                                               *)

\* base.ResolveReference(ref).String()
resolveURL(href, baseURL) ==
    CASE href.kind = "abs" -> href.url
      [] href.kind = "rootrel" -> [baseURL EXCEPT !.path = href.path, !.frag = ""]
      [] href.kind = "frag" -> [baseURL EXCEPT !.frag = href.frag]

isValidLink(link, baseURL) == link.host = baseURL.host

\* extractLinks: the resolved <a href> targets that pass isValidLink, in
\* document order.
extractLinks(w, baseURL) ==
    LET as == Page(w, baseURL).anchors
        resolved == [i \in DOMAIN as |-> resolveURL(as[i], baseURL)]
    IN  SelectSeq(resolved, LAMBDA l : isValidLink(l, baseURL))

\* extractJSFromHTML: the arguments of its addJSFile calls, in order.
extractJS(w, baseURL) ==
    LET ss == Page(w, baseURL).scripts
    IN  [i \in DOMAIN ss |-> resolveURL(ss[i], baseURL)]

\* fmt.Sprintf("crawl-%s-%d", targetURL, depth)
OpID(targetURL, depth) == <<"crawl", targetURL, depth>>

\* depth >= MaxDepth: the cutoff one level early.
DepthExceededOffByOne(depth, maxDepth) == depth >= maxDepth

\* if depth > c.config.MaxDepth { return nil }
DepthExceeded(depth, maxDepth) == depth > maxDepth

\* c.crawlURL(url, depth+1)
ChildDepth(depth) == depth + 1

\* The insert forgotten: the resource is written but not remembered.
InsertJSForgets(found, jsURL) == found

\* c.jsFiles[jsURL] = true
InsertJS(found, jsURL) == found \cup {jsURL}

NoHolder == <<>>

\* A lock that never blocks: check and insert are no longer atomic.
MutexNeverBlocks(m) == TRUE

\* sync.Mutex.Lock returns only while nobody holds the mutex.
MutexFree(m) == m = NoHolder

\* One slot fewer than the channel's capacity.
SemFreeOneLess(held, threads) == held < threads - 1

\* semaphore <- struct{}{} on a channel of capacity Threads
SemFree(held, threads) == held < threads

\* No join: the parent returns without waiting.
WaitGroupNoWait(wg) == TRUE

\* wg.Wait() returns once every Add has been matched by a Done.
WaitGroupDone(wg) == wg = 0

\* A child's error returned by the parent.
ResultPropagatesChildError(childFailed) == IF childFailed THEN "err" ELSE "nil"

\* crawlURL's result after wg.Wait(): children's errors are only logged.
ResultAfterChildren(childFailed) == "nil"

----------------------------------------------------------------------------
(* crawler.go: calls of crawlURL.  A call is named by its path: the seed   *)
(* line's index followed by the index of each link followed.               *)

IsRoot(c) == Len(c) = 1
Parent(c) == SubSeq(c, 1, Len(c) - 1)

NewCall(url, depth, pc) ==
    [url |-> url, depth |-> depth, pc |-> pc, err |-> "nil", fetched |-> "no",
     seen |-> FALSE, jsIx |-> 1, sem |-> 0, wg |-> 0, childFailed |-> FALSE]

\* The goroutine of a link waits for a slot of the semaphore its parent
\* call made, then calls crawlURL.
Acquire(c) ==
    /\ calls[c].pc = "spawned"
    /\ SemFree(calls[Parent(c)].sem, config.Threads)
    /\ calls' = [calls EXCEPT ![c].pc = "enter", ![Parent(c)].sem = @ + 1]
    /\ UNCHANGED <<web, config, sess, visited, visitedMux, jsFiles, jsFilesMux, output>>
    /\ UNCHANGED <<tmVars, rt>>

\* crawlURL entry: the depth check, then visitedMux.Lock() and the lookup.
Enter(c) ==
    /\ calls[c].pc = "enter"
    /\ IF DepthExceeded(calls[c].depth, config.MaxDepth)
         THEN /\ calls' = [calls EXCEPT ![c].pc = "returned"]
              /\ UNCHANGED visitedMux
         ELSE /\ MutexFree(visitedMux)
              /\ IF calls[c].url \in visited
                   THEN /\ calls' = [calls EXCEPT ![c].pc = "returned"]
                        /\ UNCHANGED visitedMux
                   ELSE /\ calls' = [calls EXCEPT ![c].pc = "vinsert"]
                        /\ visitedMux' = c
    /\ UNCHANGED <<web, config, sess, visited, jsFiles, jsFilesMux, output>>
    /\ UNCHANGED <<tmVars, rt>>

\* c.visited[targetURL] = true; Unlock; CreateOperation; Retry starts.
MarkVisited(c) ==
    /\ calls[c].pc = "vinsert"
    /\ visited' = visited \cup {calls[c].url}
    /\ visitedMux' = NoHolder
    /\ CreateOperation(OpID(calls[c].url, calls[c].depth))
    /\ calls' = [calls EXCEPT ![c].pc = "retry", ![c].fetched = "started"]
    /\ UNCHANGED <<web, config, sess, jsFiles, jsFilesMux, output, gmon, rt>>

\* retryFn: the heartbeat, then the HTTP request goes out.
StartFetch(c) ==
    /\ calls[c].pc = "retry"
    /\ SendHeartbeat(OpID(calls[c].url, calls[c].depth))
    /\ calls' = [calls EXCEPT ![c].pc = "fetch"]
    /\ UNCHANGED <<web, config, sess, visited, visitedMux, jsFiles, jsFilesMux, output,
                   monitors, gmon, rt>>

\* Retry returns without success: the error is logged and returned, and
\* the deferred CompleteOperation runs.
FetchFail(c) ==
    /\ calls[c].pc = "fetch"
    /\ CompleteOperation(OpID(calls[c].url, calls[c].depth))
    /\ calls' = [calls EXCEPT ![c].pc = "returned", ![c].err = "err", ![c].fetched = "fail"]
    /\ UNCHANGED <<web, config, sess, visited, visitedMux, jsFiles, jsFilesMux, output,
                   monitors, gmon, rt>>

\* Retry returns with the body.
FetchOK(c) ==
    /\ calls[c].pc = "fetch"
    /\ calls' = [calls EXCEPT ![c].pc = IF extractJS(web, calls[c].url) = <<>>
                                          THEN "links" ELSE "js",
                              ![c].fetched = "ok"]
    /\ UNCHANGED <<web, config, sess, visited, visitedMux, jsFiles, jsFilesMux, output>>
    /\ UNCHANGED <<tmVars, rt>>

\* addJSFile: jsFilesMux.Lock() and the lookup.
AddJSLock(c) ==
    /\ calls[c].pc = "js"
    /\ MutexFree(jsFilesMux)
    /\ jsFilesMux' = c
    /\ calls' = [calls EXCEPT ![c].pc = "jsadd",
                              ![c].seen = extractJS(web, calls[c].url)[calls[c].jsIx] \in jsFiles]
    /\ UNCHANGED <<web, config, sess, visited, visitedMux, jsFiles, output>>
    /\ UNCHANGED <<tmVars, rt>>

\* addJSFile: the insert, the sink write and the deferred Unlock.
AddJSWrite(c) ==
    LET scripts == extractJS(web, calls[c].url)
        jsURL == scripts[calls[c].jsIx]
    IN  /\ calls[c].pc = "jsadd"
        /\ IF calls[c].seen
             THEN UNCHANGED <<jsFiles, output>>
             ELSE /\ jsFiles' = InsertJS(jsFiles, jsURL)
                  /\ output' = IF output.state # "nil"
                                 THEN [output EXCEPT !.lines = Append(@, jsURL)]
                                 ELSE output
        /\ jsFilesMux' = NoHolder
        /\ calls' = [calls EXCEPT ![c].jsIx = @ + 1,
                                  ![c].pc = IF calls[c].jsIx = Len(scripts)
                                              THEN "links" ELSE "js"]
        /\ UNCHANGED <<web, config, sess, visited, visitedMux>>
        /\ UNCHANGED <<tmVars, rt>>

\* extractLinks, then one goroutine per link: wg.Add(1); go func(url).
Spawn(c) ==
    LET links == extractLinks(web, calls[c].url)
        kids == {Append(c, i) : i \in DOMAIN links}
    IN  /\ calls[c].pc = "links"
        /\ calls' = [x \in DOMAIN calls \cup kids |->
                        IF x \in kids
                          THEN NewCall(links[x[Len(x)]], ChildDepth(calls[c].depth), "spawned")
                          ELSE IF x = c
                                 THEN [calls[c] EXCEPT !.pc = "wait", !.wg = Len(links)]
                                 ELSE calls[x]]
        /\ UNCHANGED <<web, config, sess, visited, visitedMux, jsFiles, jsFilesMux, output>>
        /\ UNCHANGED <<tmVars, rt>>

\* wg.Wait() returns; return nil; the deferred CompleteOperation runs.
WaitReturn(c) ==
    /\ calls[c].pc = "wait"
    /\ WaitGroupDone(calls[c].wg)
    /\ CompleteOperation(OpID(calls[c].url, calls[c].depth))
    /\ calls' = [calls EXCEPT ![c].pc = "returned",
                              ![c].err = ResultAfterChildren(calls[c].childFailed)]
    /\ UNCHANGED <<web, config, sess, visited, visitedMux, jsFiles, jsFilesMux, output,
                   monitors, gmon, rt>>

\* The goroutine after crawlURL returned: log the error, <-semaphore,
\* wg.Done().
GoExit(c) ==
    /\ calls[c].pc = "returned"
    /\ ~IsRoot(c)
    /\ calls' = [calls EXCEPT ![c].pc = "done",
                              ![Parent(c)].sem = @ - 1,
                              ![Parent(c)].wg = @ - 1,
                              ![Parent(c)].childFailed = @ \/ calls[c].err # "nil"]
    /\ UNCHANGED <<web, config, sess, visited, visitedMux, jsFiles, jsFilesMux, output>>
    /\ UNCHANGED <<tmVars, rt>>

----------------------------------------------------------------------------
(* crawler.go: CrawlDomain and CrawlFromStdin.                             *)

\* setupOutput: os.Create may fail; then c.output stays nil and the entry
\* point returns the error.
SetupOutput ==
    /\ sess.pc = "start"
    /\ IF sess.outputOK
         THEN /\ output' = [output EXCEPT !.state = "open"]
              /\ sess' = [sess EXCEPT !.pc = "loop"]
         ELSE /\ sess' = [sess EXCEPT !.pc = "returned", !.ret = "setupErr"]
              /\ UNCHANGED output
    /\ UNCHANGED <<web, config, calls, visited, visitedMux, jsFiles, jsFilesMux>>
    /\ UNCHANGED <<tmVars, rt>>

\* closeOutput (deferred by both entry points)
closeOutput(out) == [out EXCEPT !.state = "closed"]

\* CrawlDomain: c.crawlURL(domain, 0) is called.
DomainCrawl ==
    /\ sess.entry = "CrawlDomain"
    /\ sess.pc = "loop"
    /\ calls' = [x \in DOMAIN calls \cup {<<1>>} |->
                    IF x = <<1>> THEN NewCall(sess.seeds[1], 0, "enter") ELSE calls[x]]
    /\ sess' = [sess EXCEPT !.pc = "crawling"]
    /\ UNCHANGED <<web, config, visited, visitedMux, jsFiles, jsFilesMux, output>>
    /\ UNCHANGED <<tmVars, rt>>

\* CrawlDomain: return c.crawlURL(domain, 0)
DomainReturn ==
    /\ sess.entry = "CrawlDomain"
    /\ sess.pc = "crawling"
    /\ calls[<<1>>].pc = "returned"
    /\ sess' = [sess EXCEPT !.pc = "returned",
                            !.ret = IF calls[<<1>>].err = "nil" THEN "nil" ELSE "crawlErr"]
    /\ output' = closeOutput(output)
    /\ UNCHANGED <<web, config, calls, visited, visitedMux, jsFiles, jsFilesMux>>
    /\ UNCHANGED <<tmVars, rt>>

\* CrawlFromStdin: scanner.Scan() yields a line; a blank line is skipped,
\* any other starts c.crawlURL(domain, 0).
StdinLine ==
    /\ sess.entry = "CrawlFromStdin"
    /\ sess.pc = "loop"
    /\ sess.ix <= Len(sess.seeds)
    /\ IF sess.seeds[sess.ix] = Blank
         THEN /\ sess' = [sess EXCEPT !.ix = @ + 1]
              /\ UNCHANGED calls
         ELSE /\ calls' = [x \in DOMAIN calls \cup {<<sess.ix>>} |->
                             IF x = <<sess.ix>>
                               THEN NewCall(sess.seeds[sess.ix], 0, "enter")
                               ELSE calls[x]]
              /\ sess' = [sess EXCEPT !.pc = "crawling"]
    /\ UNCHANGED <<web, config, visited, visitedMux, jsFiles, jsFilesMux, output>>
    /\ UNCHANGED <<tmVars, rt>>

\* CrawlFromStdin: crawlURL returned; its error is printed, not returned.
StdinLineDone ==
    /\ sess.entry = "CrawlFromStdin"
    /\ sess.pc = "crawling"
    /\ calls[<<sess.ix>>].pc = "returned"
    /\ sess' = [sess EXCEPT !.pc = "loop", !.ix = @ + 1]
    /\ UNCHANGED <<web, config, calls, visited, visitedMux, jsFiles, jsFilesMux, output>>
    /\ UNCHANGED <<tmVars, rt>>

\* CrawlFromStdin: scanner.Scan() returns false at end of input (Err nil)
\* or on a read error (Err non-nil); return scanner.Err().
StdinEnd(readError) ==
    /\ sess.entry = "CrawlFromStdin"
    /\ sess.pc = "loop"
    /\ readError \/ sess.ix > Len(sess.seeds)
    /\ sess' = [sess EXCEPT !.pc = "returned",
                            !.ret = IF readError THEN "scanErr" ELSE "nil"]
    /\ output' = closeOutput(output)
    /\ UNCHANGED <<web, config, calls, visited, visitedMux, jsFiles, jsFilesMux>>
    /\ UNCHANGED <<tmVars, rt>>

----------------------------------------------------------------------------
(* The crawler's specification.                                            *)

\* No Retry call is running.
NoRetry == [pc |-> "none"]

InitTM ==
    /\ operations = << >>
    /\ ops = << >>
    /\ monitors = << >>
    /\ globalErr = NoErr
    /\ gmon = [pc |-> "wait", snap |-> {}]

Sessions ==
    {[entry |-> "CrawlDomain", seeds |-> <<S>>]}
        \cup {[entry |-> "CrawlFromStdin", seeds |-> sl] : sl \in SeedLists}

\* crawler.New, then one call of CrawlDomain or CrawlFromStdin.
Init ==
    /\ web \in Webs
    /\ config \in [MaxDepth : 0..MaxDepthBound, Threads : 1..MaxThreads]
    /\ \E e \in Sessions, ok \in BOOLEAN :
          sess = [entry |-> e.entry, seeds |-> e.seeds, ix |-> 1, pc |-> "start",
                  ret |-> "pending", outputOK |-> ok]
    /\ calls = << >>
    /\ visited = {}
    /\ visitedMux = NoHolder
    /\ jsFiles = {}
    /\ jsFilesMux = NoHolder
    /\ output = [state |-> "nil", lines |-> <<>>]
    /\ InitTM
    /\ rt = NoRetry

Next ==
    \/ SetupOutput
    \/ DomainCrawl
    \/ DomainReturn
    \/ StdinLine
    \/ StdinLineDone
    \/ \E readError \in BOOLEAN : StdinEnd(readError)
    \/ \E c \in DOMAIN calls : Acquire(c)
    \/ \E c \in DOMAIN calls : Enter(c)
    \/ \E c \in DOMAIN calls : MarkVisited(c)
    \/ \E c \in DOMAIN calls : StartFetch(c)
    \/ \E c \in DOMAIN calls : FetchFail(c)
    \/ \E c \in DOMAIN calls : FetchOK(c)
    \/ \E c \in DOMAIN calls : AddJSLock(c)
    \/ \E c \in DOMAIN calls : AddJSWrite(c)
    \/ \E c \in DOMAIN calls : Spawn(c)
    \/ \E c \in DOMAIN calls : WaitReturn(c)
    \/ \E c \in DOMAIN calls : GoExit(c)

Spec == Init /\ [][Next]_vars

\* crawler.New, then one call of CrawlDomain whose output file opens.
InitDomain ==
    /\ Init
    /\ sess.entry = "CrawlDomain"
    /\ sess.outputOK

NextDomain ==
    \/ SetupOutput
    \/ DomainCrawl
    \/ DomainReturn
    \/ \E c \in DOMAIN calls : Acquire(c)
    \/ \E c \in DOMAIN calls : Enter(c)
    \/ \E c \in DOMAIN calls : MarkVisited(c)
    \/ \E c \in DOMAIN calls : StartFetch(c)
    \/ \E c \in DOMAIN calls : FetchFail(c)
    \/ \E c \in DOMAIN calls : FetchOK(c)
    \/ \E c \in DOMAIN calls : AddJSLock(c)
    \/ \E c \in DOMAIN calls : AddJSWrite(c)
    \/ \E c \in DOMAIN calls : Spawn(c)
    \/ \E c \in DOMAIN calls : WaitReturn(c)
    \/ \E c \in DOMAIN calls : GoExit(c)

\* CrawlDomain where every runnable goroutine is scheduled in the end and
\* every fetch attempt group returns.
FairSpec == InitDomain /\ [][NextDomain]_vars /\ WF_vars(NextDomain)

\* CrawlDomain together with the timers and the monitor goroutines of the
\* crawler's TimeoutManager.
NextOps ==
    \/ SetupOutput
    \/ DomainCrawl
    \/ DomainReturn
    \/ \E c \in DOMAIN calls : Acquire(c)
    \/ \E c \in DOMAIN calls : Enter(c)
    \/ \E c \in DOMAIN calls : MarkVisited(c)
    \/ \E c \in DOMAIN calls : StartFetch(c)
    \/ \E c \in DOMAIN calls : FetchFail(c)
    \/ \E c \in DOMAIN calls : FetchOK(c)
    \/ \E c \in DOMAIN calls : AddJSLock(c)
    \/ \E c \in DOMAIN calls : AddJSWrite(c)
    \/ \E c \in DOMAIN calls : Spawn(c)
    \/ \E c \in DOMAIN calls : WaitReturn(c)
    \/ \E c \in DOMAIN calls : GoExit(c)
    \/ \E i \in DOMAIN ops : OpDeadline(i)
    \/ GlobalDeadline
    \/ \E i \in DOMAIN ops : MonitorDone(i)
    \/ \E i \in DOMAIN ops : MonitorCtxDone(i)
    \/ \E i \in DOMAIN ops : MonitorCancel(i)
    \/ GlobalMonitorWake
    \/ GlobalMonitorSnapshot
    \/ GlobalMonitorCancel

\* A page with a script and with links to two pages that have no links.
WebOps ==
    [u \in {S} |-> [anchors |-> <<Rel("/a"), Rel("/b")>>, scripts |-> <<Rel("/a.js")>>]]

\* crawler.New, then CrawlDomain(S) with an output file that opens.
InitOps ==
    /\ web = WebOps
    /\ config \in [MaxDepth : 0..MaxOpsDepth, Threads : 1..MaxOpsThreads]
    /\ sess = [entry |-> "CrawlDomain", seeds |-> <<S>>, ix |-> 1, pc |-> "start",
               ret |-> "pending", outputOK |-> TRUE]
    /\ calls = << >>
    /\ visited = {}
    /\ visitedMux = NoHolder
    /\ jsFiles = {}
    /\ jsFilesMux = NoHolder
    /\ output = [state |-> "nil", lines |-> <<>>]
    /\ InitTM
    /\ rt = NoRetry

SpecOps == InitOps /\ [][NextOps]_vars

\* NewTimeoutManager; no crawl is running.
InitTMOnly ==
    /\ InitTM
    /\ rt = NoRetry
    /\ web = << >>
    /\ config = [MaxDepth |-> 0, Threads |-> 1]
    /\ sess = [entry |-> "none", seeds |-> <<>>, ix |-> 1, pc |-> "returned",
               ret |-> "nil", outputOK |-> TRUE]
    /\ calls = << >>
    /\ visited = {}
    /\ visitedMux = NoHolder
    /\ jsFiles = {}
    /\ jsFilesMux = NoHolder
    /\ output = [state |-> "nil", lines |-> <<>>]

\* Callers, deadlines and monitors reacting to Done and to context ends.
\* Heartbeats and ticker ticks write only hb, idle and warned, which none
\* of these actions reads; SpecHB adds them.
NextTM ==
    \/ \E id \in Ids : CallCreate(id, MaxOps)
    \/ \E id \in Ids : CallComplete(id)
    \/ \E id \in Ids : CallCancel(id)
    \/ CallShutdown
    \/ \E i \in DOMAIN ops : OpDeadline(i)
    \/ GlobalDeadline
    \/ \E i \in DOMAIN ops : MonitorDone(i)
    \/ \E i \in DOMAIN ops : MonitorCtxDone(i)
    \/ \E i \in DOMAIN ops : MonitorCancel(i)
    \/ GlobalMonitorWake
    \/ GlobalMonitorSnapshot
    \/ GlobalMonitorCancel

SpecTM == InitTMOnly /\ [][NextTM]_vars

NextHB ==
    \/ \E id \in Ids : CallCreate(id, MaxHBOps)
    \/ \E id \in Ids : CallComplete(id)
    \/ \E id \in Ids : CallCancel(id)
    \/ \E id \in Ids : CallHeartbeat(id)
    \/ CallShutdown
    \/ \E i \in DOMAIN ops : OpDeadline(i)
    \/ GlobalDeadline
    \/ \E i \in DOMAIN ops : MonitorDone(i)
    \/ \E i \in DOMAIN ops : MonitorCtxDone(i)
    \/ \E i \in DOMAIN ops : MonitorCancel(i)
    \/ \E i \in DOMAIN ops : MonitorHeartbeat(i)
    \/ \E i \in DOMAIN ops, late \in BOOLEAN : MonitorTick(i, late)
    \/ GlobalMonitorWake
    \/ GlobalMonitorSnapshot
    \/ GlobalMonitorCancel

SpecHB == InitTMOnly /\ [][NextHB]_vars

\* One monitorOperation goroutine: whichever of its select cases and
\* statements can run next.  The Go scheduler runs every runnable goroutine
\* and select picks among ready cases at random, so a monitor that can
\* step does step.
MonitorStep(i) ==
    /\ i \in DOMAIN ops
    /\ (MonitorDone(i) \/ MonitorCtxDone(i) \/ MonitorCancel(i))

\* The monitorGlobalTimeout goroutine, likewise.
GlobalMonitorStep == GlobalMonitorWake \/ GlobalMonitorSnapshot \/ GlobalMonitorCancel

FairMonitors ==
    /\ \A i \in 1..MaxOps : WF_vars(MonitorStep(i))
    /\ WF_vars(GlobalMonitorStep)

\* SpecTM with every monitor goroutine scheduled fairly.
FairSpecTM == SpecTM /\ FairMonitors

\* The function WithRetry builds, after its call of Retry: it returns
\* result.LastError.
WithRetryReturn ==
    /\ rt.pc = "returned"
    /\ rt.fn = "any"
    /\ rt' = [rt EXCEPT !.pc = "done", !.ret = rt.result.LastError]
    /\ UNCHANGED <<crawlVars, tmVars>>

\* No crawl and no operation: one call of Retry, with any configuration
\* and any attempt function, or with crawlURL's.
InitRetry ==
    /\ InitTM
    /\ \/ \E cfg \in RetryConfigs : rt = NewRetry(cfg, "any")
       \/ \E cfg \in CrawlerRetryConfigs : rt = NewRetry(cfg, "fetch")
    /\ web = << >>
    /\ config = [MaxDepth |-> 0, Threads |-> 1]
    /\ sess = [entry |-> "none", seeds |-> <<>>, ix |-> 1, pc |-> "returned",
               ret |-> "nil", outputOK |-> TRUE]
    /\ calls = << >>
    /\ visited = {}
    /\ visitedMux = NoHolder
    /\ jsFiles = {}
    /\ jsFilesMux = NoHolder
    /\ output = [state |-> "nil", lines |-> <<>>]

NextRetry ==
    \/ RetryLoop
    \/ \E err \in AnyOutcomes \cup FetchOutcomes("Canceled") \cup FetchOutcomes("DeadlineExceeded") :
          FnReturn(err)
    \/ SleepCtxDone
    \/ SleepOver
    \/ \E err \in {"Canceled", "DeadlineExceeded"} : ParentCtxEnds(err)
    \/ OverallTimeout
    \/ CrawlURLAfterRetry
    \/ WithRetryReturn

SpecRetry == InitRetry /\ [][NextRetry]_vars

\* No crawl is running.
NoCrawl ==
    /\ web = << >>
    /\ config = [MaxDepth |-> 0, Threads |-> 1]
    /\ sess = [entry |-> "none", seeds |-> <<>>, ix |-> 1, pc |-> "returned",
               ret |-> "nil", outputOK |-> TRUE]
    /\ calls = << >>
    /\ visited = {}
    /\ visitedMux = NoHolder
    /\ jsFiles = {}
    /\ jsFilesMux = NoHolder
    /\ output = [state |-> "nil", lines |-> <<>>]

\* calculateDelay applied to any configuration, attempt and random number.
InitDelay ==
    /\ InitTM
    /\ NoCrawl
    /\ \E cfg \in DelayConfigs : rt = NewDelay(cfg)

NextDelay == \E attempt \in 1..MaxAttemptsBound, r \in 0..(RandDen - 1) : CalculateDelay(attempt, r)

SpecDelay == InitDelay /\ [][NextDelay]_vars

\* The error functions applied to any error.
InitErrors ==
    /\ InitTM
    /\ NoCrawl
    /\ rt = NewErrors

NextErrors ==
    \/ \E errType \in ErrorTypes, message \in Messages, statusCode \in StatusCodes,
          cause \in Causes : ErrNew(errType, message, statusCode, cause)
    \/ \E e \in GivenErrors : ErrGiven(e)
    \/ \E key \in ContextKeys, value \in StatusCodes : ErrWithContext(key, value)
    \/ \E message \in Messages : ErrWrap(message)

SpecErrors == InitErrors /\ [][NextErrors]_vars

----------------------------------------------------------------------------
(* BatchTimeout.ExecuteBatch (pkg/utils/timeout.go).  The call lives in rt: *)
(* st[i] is the position of operation i's goroutine ("spawned", "running",  *)
(* "exiting" while its deferred calls run, "done"), outs[i] the value the   *)
(* operation returned, results the shared slice, main the position of       *)
(* ExecuteBatch itself, k and seen the index and the element copy of its    *)
(* range loop, ret the slice as it was when ExecuteBatch returned and       *)
(* finished the operations that had returned by then.                       *)

\* What an operation may return: nil or an error of its own.
OperationOutcomes == {Nil, NewNetworkError("op failed", "other")}

\* ExecuteBatch up to its select: results := make([]error, len(operations)),
\* the semaphore, and one goroutine per operation.
NewBatch(n, maxConcurrency) ==
    [pc |-> "batch", n |-> n, maxConcurrency |-> maxConcurrency,
     st |-> [i \in 1..n |-> "spawned"],
     outs |-> [i \in 1..n |-> Nil],
     results |-> [i \in 1..n |-> Nil],
     batchErr |-> NoErr, main |-> "select", k |-> 1, seen |-> Nil,
     ret |-> <<>>, finished |-> {}]

\* semaphore <- struct{}{}: the send succeeds while the channel's buffer,
\* of capacity maxConcurrency, is not full; a goroutine holds its slot
\* until its deferred receive.
SemaphoreHasRoom(r) ==
    Cardinality({i \in 1..r.n : r.st[i] \in {"running", "exiting"}}) < r.maxConcurrency

\* ExecuteBatch returns results; finished is the set of operations that
\* have returned by now.
BatchReturn(r) ==
    [r EXCEPT !.main = "returned", !.ret = r.results,
              !.finished = {i \in 1..r.n : r.st[i] \in {"exiting", "done"}}]

\* Goroutine i acquires the semaphore, derives opCtx and calls the operation.
BatchAcquire(i) ==
    /\ rt.pc = "batch"
    /\ i \in 1..rt.n
    /\ rt.st[i] = "spawned"
    /\ SemaphoreHasRoom(rt)
    /\ rt' = [rt EXCEPT !.st[i] = "running"]
    /\ UNCHANGED <<crawlVars, tmVars>>

\* results[index] = operation(opCtx)
BatchOpReturn(i, err) ==
    /\ rt.pc = "batch"
    /\ i \in 1..rt.n
    /\ rt.st[i] = "running"
    /\ rt' = [rt EXCEPT !.st[i] = "exiting", !.outs[i] = err, !.results[i] = err]
    /\ UNCHANGED <<crawlVars, tmVars>>

\* The goroutine's deferred calls: opCancel, the release of the semaphore,
\* wg.Done.
BatchOpExit(i) ==
    /\ rt.pc = "batch"
    /\ i \in 1..rt.n
    /\ rt.st[i] = "exiting"
    /\ rt' = [rt EXCEPT !.st[i] = "done"]
    /\ UNCHANGED <<crawlVars, tmVars>>

\* batchCtx ends: the batch timeout elapses or the caller's context ends.
BatchCtxEnds(err) ==
    /\ rt.pc = "batch"
    /\ rt.main = "select"
    /\ rt.batchErr = NoErr
    /\ rt' = [rt EXCEPT !.batchErr = err]
    /\ UNCHANGED <<crawlVars, tmVars>>

\* case <-done: wg.Wait has returned and done is closed.
BatchSelectDone ==
    /\ rt.pc = "batch"
    /\ rt.main = "select"
    /\ \A i \in 1..rt.n : rt.st[i] = "done"
    /\ rt' = BatchReturn(rt)
    /\ UNCHANGED <<crawlVars, tmVars>>

\* case <-batchCtx.Done(): the range loop over results begins.
BatchSelectTimeout ==
    /\ rt.pc = "batch"
    /\ rt.main = "select"
    /\ rt.batchErr # NoErr
    /\ rt' = [rt EXCEPT !.main = "fillRead", !.k = 1]
    /\ UNCHANGED <<crawlVars, tmVars>>

\* for i, result := range results: the element is copied.
BatchFillRead ==
    /\ rt.pc = "batch"
    /\ rt.main = "fillRead"
    /\ rt' = [rt EXCEPT !.main = "fillWrite", !.seen = rt.results[rt.k]]
    /\ UNCHANGED <<crawlVars, tmVars>>

\* if result == nil { results[i] = NewTimeoutError(...) }, then the next
\* element, or the return after the last one.
BatchFillWrite ==
    /\ rt.pc = "batch"
    /\ rt.main = "fillWrite"
    /\ LET filled == IF rt.seen = Nil
                       THEN [rt EXCEPT !.results[rt.k] =
                                NewTimeoutError("operation timed out in batch", rt.batchErr)]
                       ELSE rt
       IN  rt' = IF rt.k < rt.n
                   THEN [filled EXCEPT !.main = "fillRead", !.k = rt.k + 1]
                   ELSE BatchReturn(filled)
    /\ UNCHANGED <<crawlVars, tmVars>>

\* One call of ExecuteBatch with any number of operations and any
\* maxConcurrency within the bounds.
InitBatch ==
    /\ InitTM
    /\ NoCrawl
    /\ \E n \in 1..MaxBatchOps, maxConcurrency \in 0..MaxBatchConcurrency :
          rt = NewBatch(n, maxConcurrency)

NextBatch ==
    \/ \E i \in 1..MaxBatchOps : BatchAcquire(i)
    \/ \E i \in 1..MaxBatchOps, err \in OperationOutcomes : BatchOpReturn(i, err)
    \/ \E i \in 1..MaxBatchOps : BatchOpExit(i)
    \/ \E err \in {"Canceled", "DeadlineExceeded"} : BatchCtxEnds(err)
    \/ BatchSelectDone
    \/ BatchSelectTimeout
    \/ BatchFillRead
    \/ BatchFillWrite

SpecBatch == InitBatch /\ [][NextBatch]_vars

----------------------------------------------------------------------------
(* Properties of the traversal engine.                                     *)

Calls == DOMAIN calls
Returned(c) == calls[c].pc \in {"returned", "done"}
FetchStarted(c) == calls[c].fetched # "no"
Root(c) == <<c[1]>>
IsDescendant(d, c) == Len(d) > Len(c) /\ SubSeq(d, 1, Len(c)) = c
Range(f) == {f[i] : i \in DOMAIN f}

\* C1: within one Crawler each distinct URL starts at most one fetch
\* attempt group, the URL is in the visited set from before its fetch
\* starts, and it stays there when the fetch fails terminally.
C1_OneFetchPerURL ==
    /\ \A c1, c2 \in Calls :
          FetchStarted(c1) /\ FetchStarted(c2) /\ calls[c1].url = calls[c2].url => c1 = c2
    /\ \A c \in Calls : FetchStarted(c) => calls[c].url \in visited

\* C1 witness: with Threads >= 2 a link found by two pages, fetched by one
\* call with a terminal failure and skipped by the other.
C1_Witness ==
    \E c1, c2 \in Calls :
        /\ config.Threads >= 2
        /\ c1 # c2 /\ ~IsRoot(c1) /\ ~IsRoot(c2) /\ Parent(c1) # Parent(c2)
        /\ calls[c1].url = calls[c2].url
        /\ calls[c1].fetched = "fail"
        /\ calls[c2].pc = "done" /\ calls[c2].fetched = "no"
        /\ calls[c2].depth <= config.MaxDepth

InFlight == {c \in Calls : calls[c].pc = "fetch"}

\* C2: the number of fetches in flight never exceeds config.Threads.
C2_InFlightWithinThreads == Cardinality(InFlight) <= config.Threads

\* C3: no fetch starts at a depth above MaxDepth; a call's depth is the
\* number of hops from its seed; a call that returns without fetching at
\* depth <= MaxDepth was stopped by the visited set, not by depth; only
\* calls that go on to fetch insert into the visited set.
C3_DepthCutoff ==
    /\ \A c \in Calls : FetchStarted(c) => calls[c].depth <= config.MaxDepth
    /\ \A c \in Calls : calls[c].depth = Len(c) - 1
    /\ \A c \in Calls :
          Returned(c) /\ ~FetchStarted(c) /\ calls[c].depth <= config.MaxDepth
              => \E c2 \in Calls \ {c} : calls[c2].url = calls[c].url /\ FetchStarted(c2)
    /\ \A u \in visited :
          \E c \in Calls : calls[c].url = u /\ calls[c].pc \notin {"spawned", "enter", "vinsert"}
                           /\ calls[c].depth <= config.MaxDepth

\* C3 witness: a page fetched at depth MaxDepth whose link was dropped at
\* depth MaxDepth + 1 and is not in the visited set.
C3_Witness ==
    \E c, k \in Calls :
        /\ config.MaxDepth >= 1
        /\ calls[c].depth = config.MaxDepth /\ calls[c].fetched = "ok"
        /\ Parent(k) = c /\ calls[k].pc = "done"
        /\ calls[k].depth = config.MaxDepth + 1
        /\ calls[k].url \notin visited

SameOrigin(u, v) == u.scheme = v.scheme /\ u.host = v.host
FetchedOK(u) == \E c \in Calls : calls[c].url = u /\ calls[c].fetched = "ok"
FetchedOrFailed(u) == \E c \in Calls : calls[c].url = u /\ calls[c].fetched \in {"ok", "fail"}

Anchors(p) == {resolveURL(h, p) : h \in Range(Page(web, p).anchors)}

\* The URLs reachable from start by at most k same-origin links through
\* successfully fetched pages.
RECURSIVE ReachWithin(_, _)
ReachWithin(start, k) ==
    IF k = 0 THEN {start}
    ELSE LET prev == ReachWithin(start, k - 1)
         IN  prev \cup {l \in UNION {Anchors(p) : p \in {q \in prev : FetchedOK(q)}} :
                           SameOrigin(l, start)}

\* C4: when crawlURL(start, 0) has returned, every URL within MaxDepth
\* same-origin links of start has been fetched or has failed terminally.
C4_ReachableAllFetched ==
    \A r \in Calls :
        IsRoot(r) /\ Returned(r) =>
            \A u \in ReachWithin(calls[r].url, config.MaxDepth) : FetchedOrFailed(u)

\* C5: when a crawlURL call has returned, every goroutine it spawned,
\* transitively, has finished.
C5_ReturnAfterDescendants ==
    \A c, d \in Calls : Returned(c) /\ IsDescendant(d, c) => calls[d].pc = "done"

\* C5 witness: a seed's call has returned after grandchildren ran.
C5_Witness ==
    \E c, d \in Calls :
        IsRoot(c) /\ Returned(c) /\ IsDescendant(d, c) /\ Len(d) = 3 /\ FetchStarted(d)

ResourcesRecorded(c) ==
    \A j \in Range(extractJS(web, calls[c].url)) :
        j \in jsFiles /\ (output.state # "nil" => j \in Range(output.lines))

\* C6: a link whose fetch failed terminally does not stop its siblings or
\* its parent: once the parent has returned, it returned nil, every sibling
\* ran to completion with its whole subtree, the fetch of every sibling
\* within MaxDepth was started (by that call or by another one), and the
\* resources of every page fetched on another branch are recorded.
C6_FailureIsLocal ==
    \A c \in Calls :
        calls[c].fetched = "fail" /\ ~IsRoot(c) /\ Returned(Parent(c)) =>
            /\ calls[Parent(c)].err = "nil"
            /\ \A s \in Calls :
                  IsDescendant(s, Parent(c)) =>
                      /\ calls[s].pc = "done"
                      /\ calls[s].depth <= config.MaxDepth =>
                            \E k \in Calls : calls[k].url = calls[s].url /\ FetchStarted(k)
                      /\ calls[s].fetched = "ok" => ResourcesRecorded(s)

\* C6 witness: a failed link, a sibling fetched with its resources
\* recorded, and their parent returned.
C6_Witness ==
    \E c, s \in Calls :
        /\ ~IsRoot(c) /\ c # s /\ Len(s) = Len(c) /\ Parent(s) = Parent(c)
        /\ calls[c].fetched = "fail"
        /\ calls[s].fetched = "ok" /\ extractJS(web, calls[s].url) # <<>>
        /\ Returned(Parent(c))

\* C7: no fetch starts for a URL whose scheme or host differs from those
\* of the session's first URL.
C7_SameOriginOnly ==
    \A c \in Calls : FetchStarted(c) => SameOrigin(calls[c].url, calls[Root(c)].url)

\* C8: the sink holds each resource URL at most once, and while the sink
\* is set it holds exactly the resources in jsFiles.
C8_OneSinkWritePerResource ==
    /\ \A i, j \in DOMAIN output.lines : output.lines[i] = output.lines[j] => i = j
    /\ output.state # "nil" => Range(output.lines) = jsFiles

\* C8 witness: the same resource was passed to addJSFile by two pages and
\* twice by one of them, and the crawl is over.
C8_Witness ==
    /\ sess.pc = "returned" /\ sess.ret = "nil"
    /\ \E c1, c2 \in Calls :
          /\ c1 # c2
          /\ calls[c1].fetched = "ok" /\ calls[c2].fetched = "ok"
          /\ \E j \in Range(extractJS(web, calls[c1].url)) :
                /\ j \in Range(extractJS(web, calls[c2].url))
                /\ \E m, n \in DOMAIN extractJS(web, calls[c2].url) :
                      m # n /\ extractJS(web, calls[c2].url)[m] = j
                            /\ extractJS(web, calls[c2].url)[n] = j
                /\ j \in Range(output.lines)

\* C9: CrawlDomain and CrawlFromStdin return a non-nil error only when
\* the output cannot be set up or the seed input cannot be read.
C9_ErrorOnlyOnSetupFailure ==
    sess.pc = "returned" /\ sess.ret # "nil" => sess.ret \in {"setupErr", "scanErr"}

\* Links that are not pages.
IsMailOrScript(u) == u.scheme \in {"mailto", "javascript"}
IsFragmentRef(u) == u.frag # ""
IsNonPageFile(u) == u.path \in {"/image.jpg", "/document.pdf"}

\* C27: crawlURL is never called for a link that is a mailto: or
\* javascript: link, a fragment reference or a file with an excluded
\* extension.
C27_NonPageLinksNotCrawled ==
    \A c \in Calls :
        ~IsRoot(c) =>
            /\ ~IsMailOrScript(calls[c].url)
            /\ ~IsFragmentRef(calls[c].url)
            /\ ~IsNonPageFile(calls[c].url)

\* The goroutine of call c has sent to its parent's semaphore and not yet
\* received from it.
HoldsSlot(c) == ~IsRoot(c) /\ calls[c].pc \notin {"spawned", "done"}

\* C28: a call that fetches holds a slot of its parent's semaphore, and a
\* call that waits for its children holds none.
C28_SlotOnlyForOwnFetch ==
    \A c \in Calls :
        /\ ~IsRoot(c) /\ calls[c].pc \in {"retry", "fetch"} => HoldsSlot(c)
        /\ calls[c].pc = "wait" /\ calls[c].wg > 0 => ~HoldsSlot(c)

\* The entry point has returned and no goroutine is left.
AllQuiet ==
    /\ sess.pc = "returned"
    /\ \A c \in Calls : calls[c].pc = IF IsRoot(c) THEN "returned" ELSE "done"

\* C29: crawlURL(start, 0), once called, returns, and in the end
\* CrawlDomain has returned with every goroutine finished: none waits
\* forever for a semaphore slot, a mutex or its children.
C29_CrawlReturns ==
    /\ (<<1>> \in Calls) ~> (<<1>> \in Calls /\ Returned(<<1>>))
    /\ <>[]AllQuiet

\* C29 witness: with one thread and the back link of WebMixed, the root call
\* has returned after all three pages were fetched.
C29_Witness ==
    /\ config.Threads = 1
    /\ config.MaxDepth = 2
    /\ web = WebMixed
    /\ <<1>> \in Calls
    /\ Returned(<<1>>)
    /\ {S, A, B} \subseteq {calls[c].url : c \in {x \in Calls : calls[x].fetched = "ok"}}

\* C32: CrawlFromStdin that reached the end of its input has run
\* crawlURL(line, 0) to its end for every line that is not blank, whether
\* or not earlier lines failed, and every such call fetched its line's URL,
\* also when an earlier line's crawl had visited that URL.
C32_SessionPerLine ==
    sess.entry = "CrawlFromStdin" =>
        /\ sess.pc = "returned" /\ sess.ret = "nil" =>
              \A i \in DOMAIN sess.seeds :
                  sess.seeds[i] # Blank => <<i>> \in Calls /\ Returned(<<i>>)
        /\ \A i \in DOMAIN sess.seeds :
              <<i>> \in Calls /\ Returned(<<i>>) => FetchStarted(<<i>>)

\* Retry has returned for the URL of call c.
RetryDone(c) == calls[c].fetched \in {"ok", "fail"}

\* C33: once Retry has returned for a call's URL, the call's operation is
\* no longer in the manager's map.
C33_OperationOnlyDuringFetch ==
    \A c \in Calls :
        RetryDone(c) => OpID(calls[c].url, calls[c].depth) \notin DOMAIN operations

\* C34: when CrawlDomain has returned, the manager's map is empty and the
\* Done channel of every operation created during the crawl has been closed
\* (once).
C34_NoOperationLeftOpen ==
    sess.pc = "returned" =>
        /\ operations = << >>
        /\ \A i \in DOMAIN ops : Len(ops[i].done) = 1

\* C34 witness: CrawlDomain has returned after a crawl of three pages in
\* which one operation passed its deadline and was cancelled by its monitor,
\* another was completed by its crawlURL call, and a fetch failed.
C34_Witness ==
    /\ sess.pc = "returned"
    /\ Len(ops) = 3
    /\ \E i, j \in DOMAIN ops :
          /\ ops[i].done = <<"Cancelled">> /\ ops[i].err = "DeadlineExceeded"
          /\ ops[j].done = <<"Completed">>
    /\ \E c \in Calls : calls[c].fetched = "fail"

----------------------------------------------------------------------------
(* Properties of the TimeoutManager.                                       *)

Terminal(i) == ops[i].done # <<>>

\* C10: whatever the interleaving of CompleteOperation, CancelOperation,
\* Shutdown and the monitors, an operation's Done channel is closed at most
\* once; a closed operation is out of the map with its context ended; and
\* nothing that happens later changes its Done channel or its context.
C10_SingleTerminalTransition ==
    /\ [](\A i \in DOMAIN ops :
            /\ Len(ops[i].done) <= 1
            /\ Terminal(i) => ~InMap(i) /\ ops[i].err # NoErr)
    /\ [][\A i \in DOMAIN ops :
            Terminal(i) => ops'[i].done = ops[i].done /\ ops'[i].err = ops[i].err]_vars

\* C10 witness: an operation was completed after its monitor had seen the
\* deadline pass, and the monitor's CancelOperation then found nothing to do.
C10_Witness ==
    \E i \in DOMAIN ops :
        /\ ops[i].done = <<"Completed">>
        /\ ops[i].err = "DeadlineExceeded"
        /\ monitors[i].pc = "exitCancel"
        /\ \A j \in DOMAIN ops : ops[j].id = ops[i].id => j = i

MonitorExited(i) == monitors[i].pc \in {"exitDone", "exitCancel"}

\* The operation object has had its terminal transition and its monitor
\* has returned.
Settled(i) == i \in DOMAIN ops /\ Terminal(i) /\ ~InMap(i) /\ MonitorExited(i)

\* An operation that is in the map with Done open and whose context has
\* passed its deadline.
ExpiredOpen(i) ==
    /\ i \in DOMAIN ops
    /\ InMap(i)
    /\ ops[i].done = <<>>
    /\ ops[i].err = "DeadlineExceeded"

\* C11: an open operation whose context deadline has passed is eventually
\* cancelled: its Done channel is closed, it is out of the map and its
\* monitor has returned.
C11_DeadlineForcesCancel ==
    \A i \in 1..MaxOps :
        ExpiredOpen(i) ~> Settled(i)

\* C12: once the global deadline has passed, every operation's context
\* has ended, whether the operation was open at that moment or was created
\* later, and the map of operations eventually becomes empty.
C12_GlobalDeadlineCancelsAll ==
    /\ [](globalErr = "DeadlineExceeded" => \A i \in DOMAIN ops : ops[i].err # NoErr)
    /\ (globalErr = "DeadlineExceeded") ~> (operations = << >>)

\* C12 witness: the global deadline has passed, two operations with
\* different ids ended with DeadlineExceeded and were each cancelled by
\* their own monitor, the global monitor has returned, and the map is empty.
C12_Witness ==
    /\ globalErr = "DeadlineExceeded"
    /\ gmon.pc = "exit"
    /\ operations = << >>
    /\ \E i, j \in DOMAIN ops :
          /\ ops[i].id # ops[j].id
          /\ ops[i].err = "DeadlineExceeded" /\ ops[j].err = "DeadlineExceeded"
          /\ ops[i].done = <<"Cancelled">> /\ ops[j].done = <<"Cancelled">>
          /\ monitors[i].pc = "exitCancel" /\ monitors[j].pc = "exitCancel"

\* C13: a step that ends or otherwise changes one operation while the
\* global context stays as it is leaves the context of every operation
\* with a different id as it was.
C13_OtherIdsUntouched ==
    [][\A i, j \in DOMAIN ops :
          ops[i].id # ops[j].id /\ ops'[i] # ops[i] /\ globalErr' = globalErr
              => ops'[j].err = ops[j].err]_vars

\* C13 witness: one operation timed out and was cancelled by its monitor
\* while an operation with a different id is still open with a live context.
C13_Witness ==
    \E i, j \in DOMAIN ops :
        /\ ops[i].id # ops[j].id
        /\ ops[i].err = "DeadlineExceeded" /\ ops[i].done = <<"Cancelled">>
        /\ monitors[i].pc = "exitCancel"
        /\ InMap(j) /\ ops[j].err = NoErr /\ ops[j].done = <<>>
        /\ globalErr = NoErr

\* C14: in every state SendHeartbeat can run to its end for every id,
\* known or not, whether or not the channel already holds a heartbeat; the
\* channel never holds more than one heartbeat, and the call changes
\* nothing but that channel.
C14_HeartbeatNeverBlocks ==
    /\ [](\A id \in Ids : ENABLED CallHeartbeat(id))
    /\ [](\A i \in DOMAIN ops : ops[i].hb \in {0, 1})
    /\ [][\A id \in Ids : CallHeartbeat(id) =>
            /\ operations' = operations
            /\ \A i \in DOMAIN ops :
                  /\ ops'[i].err = ops[i].err /\ ops'[i].done = ops[i].done
                  /\ ops'[i].hb # ops[i].hb =>
                        id \in DOMAIN operations /\ operations[id] = i /\ ops[i].hb = 0]_vars

\* C14 witness: the channel of an operation in the map is full and its
\* monitor has left its select loop, so nobody will receive.
C14_Witness ==
    \E i \in DOMAIN ops :
        /\ InMap(i)
        /\ ops[i].hb = 1
        /\ monitors[i].pc = "cancel"

\* C15: the step in which a monitor finds the last heartbeat older than
\* two intervals changes no operation, leaves the map as it is and leaves
\* the monitor in its select loop.
C15_StalenessOnlyLogs ==
    [][\A i \in DOMAIN ops :
          (\E late \in BOOLEAN : MonitorTick(i, late)) /\ monitors'[i].warned
              => /\ ops' = ops
                 /\ operations' = operations
                 /\ globalErr' = globalErr
                 /\ monitors'[i].pc = "select"]_vars

\* C15 witness: a monitor has warned about a stale heartbeat and its
\* operation is in the map with a live context and Done open.
C15_Witness ==
    \E i \in DOMAIN ops :
        /\ monitors[i].warned
        /\ monitors[i].idle = StaleTicks
        /\ monitors[i].pc = "select"
        /\ InMap(i)
        /\ ops[i].err = NoErr
        /\ ops[i].done = <<>>

\* The operation was open when Shutdown ran, which closed its Done channel.
ShutdownClosed(i) == ops[i].done = <<"Shutdown">>

\* C31: Shutdown leaves the map empty and the global context ended, and
\* every operation that was in the map has its context ended and its Done
\* channel closed by Shutdown alone; afterwards nothing changes such an
\* operation, a CompleteOperation or CancelOperation for its id (as long as
\* the id has not been created anew) changes nothing, and a reaction of its
\* monitor changes nothing.
C31_ShutdownIsFinal ==
    /\ [][CallShutdown =>
            /\ operations' = << >>
            /\ globalErr' # NoErr
            /\ \A i \in DOMAIN ops :
                  InMap(i) => /\ ops[i].done = <<>>
                              /\ ops'[i].done = <<"Shutdown">>
                              /\ ops'[i].err # NoErr]_vars
    /\ [][\A i \in DOMAIN ops :
            ShutdownClosed(i) => ops'[i].done = ops[i].done /\ ops'[i].err = ops[i].err]_vars
    /\ [][\A i \in DOMAIN ops :
            /\ ShutdownClosed(i)
            /\ ops[i].id \notin DOMAIN operations
            /\ CallComplete(ops[i].id) \/ CallCancel(ops[i].id)
            => ops' = ops /\ operations' = operations]_vars
    /\ [][\A i \in DOMAIN ops :
            ShutdownClosed(i) /\ (MonitorDone(i) \/ MonitorCtxDone(i) \/ MonitorCancel(i))
            => ops' = ops /\ operations' = operations]_vars

\* C35: between manager calls, with ids chosen freely (an id may be created
\* again while an operation with that id is open), an operation's Done
\* channel is closed exactly when the operation is not in the map.
C35_ClosedIffNotInMap ==
    \A i \in DOMAIN ops : Terminal(i) <=> ~InMap(i)

\* The monitor of operation a takes a step of its reaction to the end of
\* a's context, or returns.
MonitorReacts(a) == MonitorDone(a) \/ MonitorCtxDone(a) \/ MonitorCancel(a)

\* C36: when operation a was completed and operation b was created
\* afterwards with the same id, no step of a's monitor cancels b's context,
\* closes b's Done channel or removes b from the map.
C36_MonitorTouchesOwnOperationOnly ==
    [][\A a, b \in DOMAIN ops :
          /\ a < b
          /\ ops[a].id = ops[b].id
          /\ ops[a].done = <<"Completed">>
          /\ MonitorReacts(a)
          => /\ ops'[b].err = ops[b].err
             /\ ops'[b].done = ops[b].done
             /\ operations' = operations]_vars

----------------------------------------------------------------------------
(* Properties of Retry.                                                    *)

Last(seq) == seq[Len(seq)]
RetryReturned == rt.pc \in {"returned", "done"}

\* C16: fn is invoked at most MaxAttempts times; an invocation that
\* returned nil is the last one, with Retry returned, Success set and no
\* sleep after it; and Success is set only when Retry has returned and the
\* last invocation returned nil.
C16_SuccessEndsLoop ==
    /\ rt.invoked <= rt.cfg.MaxAttempts
    /\ \A k \in DOMAIN rt.outs :
          rt.outs[k] = Nil =>
              /\ k = Len(rt.outs)
              /\ RetryReturned
              /\ rt.result.Success
              /\ rt.invoked = k
              /\ rt.sleeps = k - 1
    /\ rt.result.Success => RetryReturned /\ rt.outs # <<>> /\ Last(rt.outs) = Nil

\* C16 witness: of five attempts allowed, the third returned nil after two
\* that failed, and Retry returned with Success.
C16_Witness ==
    /\ rt.cfg.MaxAttempts = 5
    /\ rt.pc = "returned"
    /\ rt.result.Success
    /\ Len(rt.outs) = 3
    /\ rt.outs[1] # Nil /\ rt.outs[2] # Nil /\ rt.outs[3] = Nil
    /\ rt.sleeps = 2

\* A typed error that may not be retried: its kind is not among the
\* configured kinds, or its flag is false.
NotEligible(err, cfg) == err.app /\ (err.type \notin cfg.RetryableErrors \/ ~err.retryable)

\* C17: an invocation that returned a typed error whose kind is not
\* configured as retryable, or whose flag is false, is the last one: Retry
\* has returned without Success, Attempts is that invocation's number,
\* LastError is that error and no sleep followed.
C17_TerminalErrorStops ==
    \A k \in DOMAIN rt.outs :
        NotEligible(rt.outs[k], rt.cfg) =>
            /\ k = Len(rt.outs)
            /\ RetryReturned
            /\ ~rt.result.Success
            /\ rt.result.Attempts = k
            /\ rt.result.LastError = rt.outs[k]
            /\ rt.invoked = k
            /\ rt.sleeps = k - 1

\* C17 witness: a Validation error on attempt 1 of 5.
C17_Witness ==
    /\ rt.cfg.MaxAttempts = 5
    /\ rt.pc = "returned"
    /\ rt.outs = <<NewValidationError("m", "nil")>>
    /\ rt.result.Attempts = 1
    /\ rt.result.LastError.type = ValidationError

\* An error that may be retried: typed, of a configured kind and flagged
\* retryable, or a network or deadline error that is not typed.
Eligible(err, cfg) ==
    /\ err # Nil
    /\ IF err.app THEN err.type \in cfg.RetryableErrors /\ err.retryable
                  ELSE err.cause \in {"net", "netTimeout", "DeadlineExceeded"}

\* C18: when Retry has returned, its context never ended and every
\* invocation failed with an error that may be retried, then Success is
\* false, Attempts is MaxAttempts, AllErrors holds the MaxAttempts errors
\* in the order of the attempts and LastError is the last of them.
C18_ExhaustionReport ==
    (/\ RetryReturned
     /\ rt.ctxErr = NoErr
     /\ \A k \in DOMAIN rt.outs : Eligible(rt.outs[k], rt.cfg))
        => /\ ~rt.result.Success
           /\ rt.result.Attempts = rt.cfg.MaxAttempts
           /\ Len(rt.result.AllErrors) = rt.cfg.MaxAttempts
           /\ rt.result.AllErrors = rt.outs
           /\ rt.cfg.MaxAttempts >= 1 => rt.result.LastError = rt.outs[rt.cfg.MaxAttempts]

\* C18 witness: three attempts allowed, an HTTP error from each.
C18_Witness ==
    /\ rt.cfg.MaxAttempts = 3
    /\ rt.pc = "returned"
    /\ rt.ctxErr = NoErr
    /\ rt.result.AllErrors = <<NewHTTPError("m", 500, "nil"), NewHTTPError("m", 500, "nil"),
                               NewHTTPError("m", 500, "nil")>>
    /\ rt.result.Attempts = 3

\* C19: a step of Retry taken at the loop head with an attempt still to
\* come, or in the sleep, while the context has ended, invokes fn no more;
\* it returns without Success with a Timeout error as LastError, appended
\* to AllErrors, unless it is the sleep's timer firing at the same time, in
\* which case the loop head is next.
C19_CancelledBeforeAttemptOrInSleep ==
    [][(/\ rt.pc \in {"loop", "sleep"}
        /\ rt.pc = "loop" => rt.attempt < rt.cfg.MaxAttempts
        /\ rt.ctxErr # NoErr
        /\ rt'.pc # rt.pc)
          => /\ rt'.invoked = rt.invoked
             /\ rt'.outs = rt.outs
             /\ \/ /\ rt'.pc = "returned"
                   /\ ~rt'.result.Success
                   /\ rt'.result.LastError.app
                   /\ rt'.result.LastError.type = TimeoutError
                   /\ rt'.result.AllErrors = Append(rt.result.AllErrors, rt'.result.LastError)
                \/ /\ rt.pc = "sleep"
                   /\ rt'.pc = "loop"
                   /\ rt'.result = rt.result]_vars

\* C19 witness: Retry slept after a failed attempt, the context ended, and
\* Retry returned a Timeout error with attempts left.
C19_Witness ==
    /\ rt.pc = "returned"
    /\ rt.sleeps >= 1
    /\ rt.sleeps = Len(rt.outs)
    /\ rt.invoked < rt.cfg.MaxAttempts
    /\ rt.result.LastError = CancelledError("Canceled")
    /\ Len(rt.result.AllErrors) = Len(rt.outs) + 1
    /\ ~rt.result.Success

\* The last fetch attempt was cut short by the end of its context.
FetchInterrupted ==
    /\ rt.fn = "fetch"
    /\ rt.outs # <<>>
    /\ Last(rt.outs) \in {NewNetworkError("failed to fetch", "Canceled"),
                          NewNetworkError("failed to fetch", "DeadlineExceeded")}

\* C20: when crawlURL has returned after a fetch attempt that was cut
\* short by the end of the operation's context, LastError and the error
\* crawlURL returns are of kind Timeout.
C20_InterruptedFetchIsTimeout ==
    rt.pc = "done" /\ FetchInterrupted =>
        /\ rt.result.LastError.type = TimeoutError
        /\ rt.ret.type = TimeoutError

\* Every fetch attempt of the call outlasted the client's timeout.
EveryFetchTimedOut ==
    /\ rt.fn = "fetch"
    /\ rt.outs # <<>>
    /\ \A k \in DOMAIN rt.outs : rt.outs[k] = NewNetworkError("failed to fetch", "netTimeout")

\* C21: when crawlURL has returned after fetch attempts that all outlasted
\* the per-fetch timeout, the error it returns is of kind Timeout.
C21_FetchTimeoutIsTimeoutKind ==
    rt.pc = "done" /\ EveryFetchTimedOut /\ rt.ctxErr = NoErr =>
        /\ ~rt.result.Success
        /\ rt.ret.type = TimeoutError

\* A return caused by the end of the context.
CancellationReturn(r) ==
    /\ r.pc = "returned"
    /\ r.result.LastError.app
    /\ r.result.LastError.type = TimeoutError
    /\ r.result.LastError.cause = r.ctxErr

\* C24: Retry sleeps only after an attempt that is not the last, so it
\* sleeps at most MaxAttempts - 1 times; the failure of attempt MaxAttempts
\* makes it return in the same step; and what follows a sleep is another
\* invocation of fn or a return caused by the end of the context.
C24_NoSleepAfterLastAttempt ==
    /\ [](rt.sleeps <= (IF rt.cfg.MaxAttempts >= 1 THEN rt.cfg.MaxAttempts - 1 ELSE 0))
    /\ [](rt.pc = "sleep" => rt.attempt < rt.cfg.MaxAttempts)
    /\ [][(rt.pc = "fn" /\ rt.attempt = rt.cfg.MaxAttempts /\ rt'.pc # "fn")
            => rt'.pc = "returned" /\ rt'.sleeps = rt.sleeps]_vars
    /\ [][(rt.pc = "sleep" /\ rt'.pc # "sleep")
            => rt'.pc = "loop" \/ CancellationReturn(rt')]_vars
    /\ [][(rt.pc = "loop" /\ rt.sleeps >= 1 /\ rt'.pc # "loop")
            => (rt'.pc = "fn" /\ rt'.invoked = rt.invoked + 1) \/ CancellationReturn(rt')]_vars

\* C24 witness: three attempts allowed, all failed with errors that may be
\* retried, two sleeps, and Retry has returned with its context live.
C24_Witness ==
    /\ rt.cfg.MaxAttempts = 3
    /\ rt.pc = "returned"
    /\ rt.ctxErr = NoErr
    /\ Len(rt.outs) = 3
    /\ Eligible(rt.outs[3], rt.cfg)
    /\ rt.sleeps = 2

\* config.Timeout is positive and has elapsed while the caller's context
\* is live.
OverallElapsed(r) ==
    /\ r.cfg.Timeout > 0
    /\ r.ctxErr = "DeadlineExceeded"
    /\ r.parentErr = NoErr

\* Retry has returned the Timeout error of the elapsed deadline.
TimeoutReturn(r) ==
    /\ CancellationReturn(r)
    /\ r.result.LastError.cause = "DeadlineExceeded"
    /\ ~r.result.Success
    /\ Last(r.result.AllErrors) = r.result.LastError

\* C30: once config.Timeout has elapsed with the caller's context live, fn
\* is not called again; where a further attempt would begin, at the head of
\* the loop with attempts left or after the sleep, Retry returns a Timeout
\* error instead; and an attempt of the crawler that was cut short reports
\* the end of Retry's own context, the one that carries the deadline.
C30_NoAttemptAfterOverallTimeout ==
    /\ [][OverallElapsed(rt) => rt'.invoked = rt.invoked]_vars
    /\ [][(OverallElapsed(rt) /\ rt.pc = "loop" /\ rt.attempt < rt.cfg.MaxAttempts
              /\ rt'.pc # "loop") => TimeoutReturn(rt')]_vars
    /\ [][(OverallElapsed(rt) /\ rt.pc = "sleep" /\ rt'.pc # "sleep")
              => rt'.pc = "loop" \/ TimeoutReturn(rt')]_vars
    /\ [](rt.fn = "fetch" =>
            \A k \in DOMAIN rt.outs :
                rt.outs[k].cause \in {"Canceled", "DeadlineExceeded"}
                    => rt.outs[k].cause = rt.ctxErr)

\* C30 witness: the deadline passed during the first fetch of three, the
\* fetch reported it, and Retry returned the Timeout error after one
\* attempt with the caller's context live.
C30_Witness ==
    /\ rt.fn = "fetch"
    /\ rt.cfg.MaxAttempts = 3
    /\ OverallElapsed(rt)
    /\ rt.outs = <<NewNetworkError("failed to fetch", "DeadlineExceeded")>>
    /\ rt.invoked = 1
    /\ TimeoutReturn(rt)

----------------------------------------------------------------------------
(* Properties of calculateDelay.                                           *)

Min(a, b) == IF a <= b THEN a ELSE b

\* The numerator and the denominator of InitialDelay * BackoffFactor^(k-1),
\* and the numerator of min(InitialDelay * BackoffFactor^(k-1), MaxDelay)
\* over that denominator.
RawNum == rt.cfg.InitialDelay * Pow(rt.cfg.BackoffFactor.num, rt.attempt - 1)
RawDen == Pow(rt.cfg.BackoffFactor.den, rt.attempt - 1)
CappedNum == Min(RawNum, rt.cfg.MaxDelay * RawDen)

\* C22: without jitter the delay after failed attempt k is
\* min(InitialDelay * BackoffFactor^(k-1), MaxDelay) as a whole number of
\* time units (the fraction below one unit cut off); it is 100, 200, 400,
\* 800, 1600 for InitialDelay 100, factor 2 and MaxDelay 10000; it is
\* InitialDelay for factor 1; it never exceeds MaxDelay.
C22_DelayWithoutJitter ==
    rt.attempt >= 1 /\ ~rt.cfg.Jitter =>
        /\ rt.delay * RawDen <= CappedNum
        /\ CappedNum < (rt.delay + 1) * RawDen
        /\ rt.delay <= rt.cfg.MaxDelay
        /\ (rt.cfg.InitialDelay = 100 /\ rt.cfg.BackoffFactor = Rat(2, 1)
              /\ rt.cfg.MaxDelay = 10000 /\ rt.attempt <= 5)
                => rt.delay = <<100, 200, 400, 800, 1600>>[rt.attempt]
        /\ (rt.cfg.BackoffFactor = Rat(1, 1) /\ rt.cfg.InitialDelay <= rt.cfg.MaxDelay)
                => rt.delay = rt.cfg.InitialDelay

\* C22 witness: the fifth delay of the example, 1600.
C22_Witness ==
    /\ rt.attempt = 5
    /\ ~rt.cfg.Jitter
    /\ rt.cfg.InitialDelay = 100 /\ rt.cfg.BackoffFactor = Rat(2, 1)
    /\ rt.cfg.MaxDelay = 10000
    /\ rt.delay = 1600

\* C23: with jitter the delay d is never negative, is at most 1.25 times
\* MaxDelay, and is within a quarter of the capped delay without jitter
\* (below it by less than a quarter plus the cut-off fraction of a unit).
C23_DelayWithJitter ==
    rt.attempt >= 1 /\ rt.cfg.Jitter =>
        /\ rt.delay >= 0
        /\ 4 * rt.delay <= 5 * rt.cfg.MaxDelay
        /\ 4 * rt.delay * RawDen <= 5 * CappedNum
        /\ 4 * (rt.delay + 1) * RawDen > 3 * CappedNum

\* C23 witness: a delay cut off at MaxDelay and then pushed above it by
\* the jitter.
C23_Witness ==
    /\ rt.attempt >= 1
    /\ rt.cfg.Jitter
    /\ RawNum > rt.cfg.MaxDelay * RawDen
    /\ rt.delay > rt.cfg.MaxDelay
    /\ rt.cfg.MaxDelay = 250

----------------------------------------------------------------------------
(* Properties of the error taxonomy.                                       *)

C26_WrapKeepsKindAndFlag ==
    rt.pc = "errors" /\ rt.how # "none" =>
        /\ rt.orig.app =>
              /\ rt.err.app
              /\ rt.err.type = rt.orig.type
              /\ rt.err.retryable = rt.orig.retryable
              /\ rt.err.cause = rt.orig.cause
              /\ Len(rt.err.message) = rt.wraps + Len(rt.orig.message)
              /\ SubSeq(rt.err.message, rt.wraps + 1, Len(rt.err.message)) = rt.orig.message
              /\ rt.annotations = 0 => rt.err.context = rt.orig.context
              /\ IsRetryableError(rt.err) = IsRetryableError(rt.orig)
              /\ \A list \in RetryableErrorLists :
                    isErrorRetryable(rt.err, list) = isErrorRetryable(rt.orig, list)
        /\ rt.orig = Nil => rt.err = Nil

\* C26 witness: a validation error wrapped twice.
C26_Witness ==
    /\ rt.pc = "errors"
    /\ rt.orig = NewValidationError("m", "other")
    /\ rt.wraps = 2
    /\ rt.err.message = <<"w", "m", "m">>

\* C37: on every return of Retry, result.Attempts is the number of times
\* fn was invoked.
C37_AttemptsCountInvocations ==
    RetryReturned => rt.result.Attempts = rt.invoked

\* C38: when Retry has returned without success, whatever MaxAttempts is,
\* LastError is not nil and is the last entry of AllErrors; and the error
\* crawlURL returns for a failed fetch is not nil.
C38_FailureHasLastError ==
    /\ RetryReturned /\ ~rt.result.Success =>
          /\ rt.result.LastError # Nil
          /\ rt.result.AllErrors # <<>>
          /\ Last(rt.result.AllErrors) = rt.result.LastError
    /\ rt.pc = "done" /\ rt.fn = "fetch" /\ ~rt.result.Success => rt.ret # Nil

\* C39: the function built by WithRetry returns nil exactly when its call
\* of Retry succeeded.
C39_WithRetryNilIffSuccess ==
    rt.pc = "done" /\ rt.fn = "any" => (rt.ret = Nil <=> rt.result.Success)

\* C40: ExecuteBatch never has more than maxConcurrency operations running,
\* and what it returns holds, for every operation that had returned before
\* ExecuteBatch did, the value that operation returned: after a batch
\* timeout a nil result of a finished operation is still nil.
C40_BatchResults ==
    rt.pc = "batch" =>
        /\ Cardinality({i \in 1..rt.n : rt.st[i] = "running"}) <= rt.maxConcurrency
        /\ rt.main = "returned" =>
              \A i \in rt.finished : rt.ret[i] = rt.outs[i]

====
